---- MODULE Spec2Model ----
(***************************************************************************)
(* Sovereign Stack: the propose/commit kernel of MCPFSAdapter together     *)
(* with the core primitives it calls (InMemoryKeystore, EventLog, mandate  *)
(* and receipt modules, MCPFSClient).                                      *)
(*                                                                         *)
(* Cryptography is modelled symbolically.  A key is a number.  The         *)
(* canonical form of an object is the sequence of the codes of its fields  *)
(* in key order; a hash is a polynomial digest of that sequence; a         *)
(* signature is the pair (signing key, digest of the signed form).         *)
(***************************************************************************)
EXTENDS Integers, Sequences, FiniteSets, TLC

\* ------------------------------------------------------------------ bounds
MaxEvents      == 4   \* longest event log explored
MaxProposals   == 1   \* proposals created by propose
MaxRevocations == 1   \* MANDATE_REVOKE events appended
MaxTasks       == 2   \* kernel operations started while others are in flight
MaxAsyncEvents == 5   \* longest event log explored with operations in flight
MaxStored      == 3   \* longest event log explored when used as a store
MaxRepeats     == 2   \* MANDATE_REVOKE events appended in a mandate's lifecycle
MaxLen         == 3   \* longest action, resource or scope pattern, in characters
MaxValue       == 2   \* largest budget cap (scope.max_value)
MaxChain       == 3   \* longest receipt chain explored
MaxHeads       == 3   \* most revocations of a revocation chain
MaxProposed    == 2   \* most proposals where propose is studied
MaxExecutions  == 1   \* most calls of SovereignAdapter.execute
MaxSpends      == 3   \* most calls of execute under the budget-aware gate
MaxBudget      == 2   \* max_value of the budgeted mandate
MaxIssued      == 3   \* most mandates a MandateBuilder creates

\* --------------------------------------------------------------- universes
AdapterId == "adapter:mcp-fs"
Agents    == {"agent:a"}
Issuers   == {"user:alice"}
Actors    == Agents \cup Issuers \cup {AdapterId}
Revokers  == {"user:alice"}

\* Action names and scope patterns are strings, modelled as sequences of
\* tokens so that endsWith / startsWith / slice can be computed on them.
ReadFile  == <<"read_file">>
FsDelete  == <<"fs", ":", "delete">>
Star      == <<"*">>
FsStar    == <<"fs", ":", "*">>

\* tools an agent may name in a proposal; fs:delete is not offered by the
\* MCP client
WriteFile     == <<"write_file">>
ListDirectory == <<"list_directory">>
Tools          == {ReadFile, FsDelete}
AvailableTools == {ReadFile, WriteFile, ListDirectory}

Unset == -1     \* an absent optional field (validity bound)
NoKey == 0      \* no key pair stored for the actor

\* the clock has two instants
Early == 0
Late  == 1

\* an instant after every reading of the clock
Beyond == 2

VARIABLES
    keys,       \* InMemoryKeystore.keys : actor -> key (NoKey if absent)
    events,     \* EventLog.events       : sequence of signed events
    proposals,  \* MCPFSAdapter.proposals: proposal id -> Proposal
    mirror,     \* SimpleMirror.entries  : sequence of captured requests
    calls,      \* invocations received by the tool executor (MCPFSClient)
    now,        \* the wall clock (new Date())
    ret,        \* outcome of the last kernel operation (value or thrown error)
    tasks,      \* async kernel operations in flight, each at one of its awaits
    receiptChain,    \* ReceiptChain.chain   : sequence of chained receipts
    added,           \* the (receiptId, receiptData) pairs addReceipt accepted
    revocationChain, \* RevocationChain.chain: sequence of links (empty before
                     \* the chain is constructed)
    spentByMandate,  \* BudgetAwareTauGate.spentByMandate: mandate id -> number
    issued           \* the mandates MandateBuilder.createMandate returned

vars == <<keys, events, proposals, mirror, calls, now, ret, tasks,
          receiptChain, added, revocationChain, spentByMandate, issued>>

\* the variables of the receipt chain, the revocation chain, the budget
\* gate and the mandate builder, which no kernel operation reads or writes
chainVars == <<receiptChain, added, revocationChain, spentByMandate, issued>>

\* ------------------------------------------------------------- canonical
\* every string the kernel serialises, and its code
StringTable ==
    <<"agent:a", "user:alice", "adapter:mcp-fs",
      "read_file", "write_file", "list_directory", "fs", ":", "delete", "*",
      "MANDATE_REVOKE", "SUGGESTION", "COMMITTED", "RECEIPT_ISSUED",
      "PROPOSAL_REJECTED",
      "INVALID_MANDATE", "REVOKED_MANDATE", "SCOPE_VIOLATION",
      "not yet valid", "expired", "revoked", "No public key",
      "Invalid signature", "Authority no longer valid",
      "not permitted by mandate", "output", "policy_change", "revoke",
      "invoke", "file", "secret", "notes",
      "VERIFICATION_FAILED", "EXECUTION_FAILED",
      "Mandate verification failed", "Action not allowed",
      "Resource not allowed", "executor error",
      "none", "value", "amount", "cost", "Budget exceeded", "send_money">>

Code(s) == CHOOSE i \in 1..Len(StringTable) : StringTable[i] = s

\* a list of strings, length first
CodeList(strings) ==
    <<Len(strings)>> \o [i \in 1..Len(strings) |-> Code(strings[i])]

\* a list of lists of strings (scope.actions), length first
RECURSIVE CodeLists(_)
CodeLists(lists) ==
    IF lists = <<>> THEN <<0>>
    ELSE LET rest == CodeLists(Tail(lists))
         IN  <<rest[1] + 1>> \o CodeList(Head(lists)) \o Tail(rest)

HashMod  == 1000003
HashBase == 257

\* sha256 of a canonical form
RECURSIVE Digest(_, _)
Digest(form, h) ==
    IF form = <<>> THEN h
    ELSE Digest(Tail(form), (h * HashBase + Head(form) + 1) % HashMod)

hashCanonical(form) == Digest(form, 7)

NoHash == -1    \* prev_hash of the first event: undefined

\* ---------------------------------------------------------------- keystore
\* the key pair ensureUserKey generates for an actor: random, hence distinct
\* from every other actor's
GenerateKey(actor) == Code(actor)

ensureUserKey(ks, actor) ==
    IF ks[actor] = NoKey THEN [ks EXCEPT ![actor] = GenerateKey(actor)] ELSE ks

\* keystore.sign throws when the key is unknown
CanSign(ks, actor) == ks[actor] # NoKey

sign(digest, key) == [key |-> key, digest |-> hashCanonical(digest)]

\* a signature field that no key produced
BadSignature == [key |-> NoKey, digest |-> 0]

verify(signature, digest, publicKey) ==
    /\ signature.key = publicKey
    /\ signature.digest = hashCanonical(digest)

getPublicKey(ks, actor) == ks[actor]

\* --------------------------------------------------------------- event log
\* canonical form of an event payload, by event type
CanonPayload(type, payload) ==
    CASE type = "MANDATE_REVOKE" ->
           <<payload.mandate_id, Code(payload.reason), payload.revoked_at,
             Code(payload.revoked_by)>>
      [] type = "SUGGESTION" ->
           <<Code(payload.agentId), payload.estimatedCost, payload.mirrorRef>>
             \o CodeList(payload.proposedAction)
      [] type = "COMMITTED" ->
           CodeList(payload.action) \o <<payload.mandateId, payload.proposalId>>
      [] type = "RECEIPT_ISSUED" /\ "proposalId" \in DOMAIN payload ->
           <<payload.mandateId, payload.proposalId, payload.receiptId>>
      [] type = "RECEIPT_ISSUED" /\ "proposalId" \notin DOMAIN payload ->
           CodeList(payload.action) \o <<payload.mandate_id, payload.receipt_id>>
      [] type = "VERIFICATION_FAILED" ->
           CodeList(payload.action) \o <<payload.mandate_id>> \o CodeList(payload.reason)
      [] type = "EXECUTION_FAILED" ->
           CodeList(payload.action) \o <<Code(payload.error), payload.mandate_id>>
      [] type = "PROPOSAL_REJECTED" ->
           CodeList(payload.details) \o <<payload.proposalId, Code(payload.reason)>>

\* canonical form of an event without its signature field
CanonEvent(evt) ==
    <<evt.id>> \o CanonPayload(evt.type, evt.payload)
      \o <<evt.prev_hash, Code(evt.signer), evt.timestamp, Code(evt.type)>>

\* canonical form of a whole event
CanonSignedEvent(evt) ==
    CanonEvent(evt) \o <<evt.signature.key, evt.signature.digest>>

\* a faulty log that puts a new event at the head instead of the tail; the
\* ordering property below has to fail on it
appendAtHead(log, ks, type, payload, signer, time) ==
    LET unsigned == [id |-> Len(log) + 1, type |-> type, timestamp |-> time,
                     payload |-> payload, signer |-> signer,
                     prev_hash |-> NoHash, signature |-> BadSignature]
    IN  <<[unsigned EXCEPT !.signature = sign(CanonEvent(unsigned), ks[signer])]>> \o log

\* a faulty log that chains no event to its predecessor
appendUnchained(log, ks, type, payload, signer, time) ==
    LET unsigned == [id |-> Len(log) + 1, type |-> type, timestamp |-> time,
                     payload |-> payload, signer |-> signer,
                     prev_hash |-> NoHash, signature |-> BadSignature]
    IN  Append(log, [unsigned EXCEPT !.signature = sign(CanonEvent(unsigned), ks[signer])])

\* a faulty log that stores a new event over the last one
appendOverLast(log, ks, type, payload, signer, time) ==
    LET kept     == IF Len(log) > 1 THEN SubSeq(log, 1, Len(log) - 1) ELSE log
        unsigned == [id |-> Len(kept) + 1, type |-> type, timestamp |-> time,
                     payload |-> payload, signer |-> signer,
                     prev_hash |-> IF Len(kept) > 0
                                   THEN hashCanonical(CanonSignedEvent(kept[Len(kept)]))
                                   ELSE NoHash,
                     signature |-> BadSignature]
    IN  Append(kept, [unsigned EXCEPT !.signature = sign(CanonEvent(unsigned), ks[signer])])

\* EventLog.append for a signer whose key is in the keystore
append(log, ks, type, payload, signer, time) ==
    LET unsigned == [id |-> Len(log) + 1, type |-> type, timestamp |-> time,
                     payload |-> payload, signer |-> signer,
                     prev_hash |-> IF Len(log) > 0
                                   THEN hashCanonical(CanonSignedEvent(log[Len(log)]))
                                   ELSE NoHash,
                     signature |-> BadSignature]
    IN  Append(log, [unsigned EXCEPT
                       !.signature = sign(CanonEvent(unsigned), ks[signer])])

\* faulty variant, on which a revocation by another actor has to be missed:
\* only events signed by an issuer count
isRevokedByIssuer(mandateId, log) ==
    \E i \in 1..Len(log) :
        /\ log[i].type = "MANDATE_REVOKE"
        /\ log[i].payload.mandate_id = mandateId
        /\ log[i].signer \in Issuers

\* faulty variant, on which the revocation lookup has to fail: only the
\* latest revocation counts
isLatestRevocation(mandateId, log) ==
    \E i \in 1..Len(log) :
        /\ log[i].type = "MANDATE_REVOKE"
        /\ log[i].payload.mandate_id = mandateId
        /\ \A j \in (i + 1)..Len(log) : log[j].type # "MANDATE_REVOKE"

isMandateRevoked(mandateId, log) ==
    \E i \in 1..Len(log) :
        /\ log[i].type = "MANDATE_REVOKE"
        /\ log[i].payload.mandate_id = mandateId

\* faulty variant of the loop, on which the count of errors has to fail:
\* a verifyChain that stops at the first event with an error
RECURSIVE ChainErrorsUntilFirst(_, _, _)
ChainErrorsUntilFirst(log, ks, i) ==
    IF i > Len(log) THEN <<>>
    ELSE LET evt  == log[i]
             link == IF i > 1 /\ evt.prev_hash # hashCanonical(CanonSignedEvent(log[i - 1]))
                     THEN <<"Hash chain broken">> ELSE <<>>
             sig  == IF getPublicKey(ks, evt.signer) = NoKey
                     THEN <<"No public key">>
                     ELSE IF ~verify(evt.signature, CanonEvent(evt),
                                     getPublicKey(ks, evt.signer))
                          THEN <<"Invalid signature">> ELSE <<>>
         IN  IF link \o sig # <<>> THEN SubSeq(link \o sig, 1, 1)
             ELSE ChainErrorsUntilFirst(log, ks, i + 1)

\* errors verifyChain accumulates, in order
RECURSIVE ChainErrors(_, _, _)
ChainErrors(log, ks, i) ==
    IF i > Len(log) THEN <<>>
    ELSE LET evt  == log[i]
             link == IF i > 1 /\ evt.prev_hash # hashCanonical(CanonSignedEvent(log[i - 1]))
                     THEN <<"Hash chain broken">> ELSE <<>>
             sig  == IF getPublicKey(ks, evt.signer) = NoKey
                     THEN <<"No public key">>
                     ELSE IF ~verify(evt.signature, CanonEvent(evt),
                                     getPublicKey(ks, evt.signer))
                          THEN <<"Invalid signature">> ELSE <<>>
         IN  link \o sig \o ChainErrors(log, ks, i + 1)

verifyChain(log, ks) ==
    LET errors == ChainErrors(log, ks, 1)
    IN  [valid |-> errors = <<>>, errors |-> errors, eventsVerified |-> Len(log)]

\* ----------------------------------------------------------------- mandate
\* canonical form of a mandate without its signature field
canonicalizeMandate(m) ==
    <<m.created_at, Code(m.delegate), Code(m.issuer), m.mandate_id>>
      \o CodeLists(m.scope.actions)
      \o (IF "max_value" \in DOMAIN m.scope THEN <<m.scope.max_value>> ELSE <<>>)
      \o (IF "resources" \in DOMAIN m.scope THEN CodeLists(m.scope.resources) ELSE <<>>)
      \o <<m.validity.not_after, m.validity.not_before>>

createMandate(id, issuer, delegate, actions, validity, time) ==
    [mandate_id |-> id, issuer |-> issuer, delegate |-> delegate,
     scope |-> [actions |-> actions], validity |-> validity,
     created_at |-> time, signature |-> BadSignature]

signMandate(m, ks, signer) ==
    [m EXCEPT !.signature = sign(canonicalizeMandate(m), ks[signer])]

\* faulty variant, on which the revocation lookup has to be missed: the
\* checks verifyMandate makes when no event log is passed to it
verifyMandateWithoutLog(m, ks, log, time) ==
    LET e1 == IF m.validity.not_before # Unset /\ m.validity.not_before > time
              THEN <<"not yet valid">> ELSE <<>>
        e2 == IF m.validity.not_after # Unset /\ m.validity.not_after < time
              THEN <<"expired">> ELSE <<>>
        e4 == IF getPublicKey(ks, m.issuer) = NoKey
              THEN <<"No public key">>
              ELSE IF ~verify(m.signature, canonicalizeMandate(m),
                              getPublicKey(ks, m.issuer))
                   THEN <<"Invalid signature">> ELSE <<>>
        errors == e1 \o e2 \o e4
    IN  [valid |-> errors = <<>>, errors |-> errors]

\* faulty variant, on which the accumulation of errors has to fail: a
\* verifyMandate that returns at the first failing check
verifyMandateFirstError(m, ks, log, time) ==
    LET e1 == IF m.validity.not_before # Unset /\ m.validity.not_before > time
              THEN <<"not yet valid">> ELSE <<>>
        e2 == IF m.validity.not_after # Unset /\ m.validity.not_after < time
              THEN <<"expired">> ELSE <<>>
        e3 == IF isMandateRevoked(m.mandate_id, log)
              THEN <<"revoked">> ELSE <<>>
        e4 == IF getPublicKey(ks, m.issuer) = NoKey
              THEN <<"No public key">>
              ELSE IF ~verify(m.signature, canonicalizeMandate(m),
                              getPublicKey(ks, m.issuer))
                   THEN <<"Invalid signature">> ELSE <<>>
        errors == e1 \o e2 \o e3 \o e4
    IN  [valid |-> errors = <<>>,
         errors |-> IF errors = <<>> THEN <<>> ELSE SubSeq(errors, 1, 1)]

verifyMandate(m, ks, log, time) ==
    LET e1 == IF m.validity.not_before # Unset /\ m.validity.not_before > time
              THEN <<"not yet valid">> ELSE <<>>
        e2 == IF m.validity.not_after # Unset /\ m.validity.not_after < time
              THEN <<"expired">> ELSE <<>>
        e3 == IF isMandateRevoked(m.mandate_id, log)
              THEN <<"revoked">> ELSE <<>>
        e4 == IF getPublicKey(ks, m.issuer) = NoKey
              THEN <<"No public key">>
              ELSE IF ~verify(m.signature, canonicalizeMandate(m),
                              getPublicKey(ks, m.issuer))
                   THEN <<"Invalid signature">> ELSE <<>>
        errors == e1 \o e2 \o e3 \o e4
    IN  [valid |-> errors = <<>>, errors |-> errors]

\* String.prototype.endsWith / startsWith / slice(0, -1)
endsWith(s, suffix) ==
    /\ Len(s) >= Len(suffix)
    /\ SubSeq(s, Len(s) - Len(suffix) + 1, Len(s)) = suffix

startsWith(s, prefix) ==
    /\ Len(s) >= Len(prefix)
    /\ SubSeq(s, 1, Len(prefix)) = prefix

dropLast(s) == SubSeq(s, 1, Len(s) - 1)

\* MCPFSAdapter.isActionInScope
isActionInScope(action, m) ==
    \E i \in 1..Len(m.scope.actions) :
        LET allowed == m.scope.actions[i]
        IN  \/ allowed = Star
            \/ allowed = action
            \/ (endsWith(allowed, <<":", "*">>) /\ startsWith(action, dropLast(allowed)))

\* ----------------------------------------------------------------- receipt
\* canonical form of a receipt without its signature field
CanonReceipt(r) ==
    CodeList(r.action)
      \o <<Code(r.actor), r.mandate_id, r.mirror_ref,
           Code(r.provider_metadata.attested_by), r.receipt_id, r.request_hash,
           r.response_hash, r.timestamp>>

issueReceipt(id, mandate_id, actor, action, mirror_ref, response_hash, attested_by, time, ks, signer) ==
    LET receipt == [receipt_id |-> id, mandate_id |-> mandate_id, actor |-> actor,
                    action |-> action, request_hash |-> mirror_ref,
                    response_hash |-> response_hash,
                    provider_metadata |-> [attested_by |-> attested_by],
                    timestamp |-> time, mirror_ref |-> mirror_ref,
                    signature |-> BadSignature]
    IN  [receipt EXCEPT !.signature = sign(CanonReceipt(receipt), ks[signer])]

verifyReceipt(receipt, ks) ==
    LET errors == IF getPublicKey(ks, receipt.actor) = NoKey
                  THEN <<"No public key">>
                  ELSE IF ~verify(receipt.signature, CanonReceipt(receipt),
                                  getPublicKey(ks, receipt.actor))
                       THEN <<"Invalid signature">> ELSE <<>>
    IN  [valid |-> errors = <<>>, errors |-> errors]

\* ---------------------------------------------------------- tool executor
\* MCPFSClient.callTool: throws for a tool it does not offer
callTool(tool) == IF tool \in AvailableTools THEN "ok" ELSE "throw"

\* canonical form of the value callTool returns
ToolOutput(tool, proposalId) == <<Code("output"), proposalId>> \o CodeList(tool)

\* ------------------------------------------------------- operation results
NoMandate == createMandate(0, AdapterId, AdapterId, <<>>,
                           [not_before |-> Unset, not_after |-> Unset], Early)
NoReceipt == [receipt_id |-> 0]

\* what the last kernel operation returned or threw
Ret(op, pid, m, outcome, receipt) ==
    [op |-> op, pid |-> pid, mandate |-> m, outcome |-> outcome,
     receipt |-> receipt]

\* no kernel operation has returned since the environment last moved
Void == Ret("none", 0, NoMandate, "ok", NoReceipt)

\* an event slot holding nothing
NoEvent == [id |-> 0]

\* the mandate ids in use (an id the map has no entry for reads as 0)
AllMandateIds == 0..4

\* a task slot no operation was started in
Idle ==
    [op |-> "idle", pc |-> "idle", pid |-> 0, mandate |-> NoMandate,
     check |-> [valid |-> FALSE, errors |-> <<>>], evt |-> NoEvent,
     then |-> "none", outcome |-> "none", receipt |-> NoReceipt]

\* ------------------------------------------------------------------- Init
Init ==
    /\ tasks     = [t \in 1..MaxTasks |-> Idle]
    /\ keys      = [a \in Actors |-> NoKey]
    /\ events    = <<>>
    /\ proposals = <<>>
    /\ mirror    = <<>>
    /\ calls     = <<>>
    /\ now       = Early
    /\ ret       = Void
    /\ receiptChain    = <<>>
    /\ added           = <<>>
    /\ revocationChain = <<>>
    /\ spentByMandate  = [id \in AllMandateIds |-> 0]
    /\ issued          = <<>>

\* the clock advances
Tick ==
    /\ now = Early
    /\ now' = Late
    /\ ret' = Void
    /\ UNCHANGED <<keys, events, proposals, mirror, calls>>

\* a holder of the keystore (getKeystore) provisions a key
EnsureUserKey(actor) ==
    /\ keys[actor] = NoKey
    /\ keys' = ensureUserKey(keys, actor)
    /\ ret' = Void
    /\ UNCHANGED <<events, proposals, mirror, calls, now>>

\* revokeMandate(mandateId, reason, revokedBy, keystore, eventLog), explored
\* while fewer than limit revocations are in the log
Revoke(limit, mandateId, revokedBy) ==
    /\ Len(events) < MaxEvents
    /\ Cardinality({i \in 1..Len(events) : events[i].type = "MANDATE_REVOKE"})
          < limit
    /\ IF CanSign(keys, revokedBy)
       THEN /\ events' = append(events, keys, "MANDATE_REVOKE",
                                [mandate_id |-> mandateId, reason |-> "policy_change",
                                 revoked_by |-> revokedBy, revoked_at |-> now],
                                revokedBy, now)
            /\ ret' = Ret("revokeMandate", 0, NoMandate, "ok", NoReceipt)
       ELSE /\ events' = events
            /\ ret' = Ret("revokeMandate", 0, NoMandate, "KEY_NOT_FOUND", NoReceipt)
    /\ UNCHANGED <<keys, proposals, mirror, calls, now>>

RevokeMandate(mandateId, revokedBy) == Revoke(MaxRevocations, mandateId, revokedBy)

\* SimpleMirror.captureRequest
captureRequest(entries, agentId, prompt, time) ==
    Append(entries, [id |-> Len(entries) + 1, agentId |-> agentId, prompt |-> prompt,
                     request_hash |-> hashCanonical(<<Code(agentId)>> \o CodeList(prompt)),
                     timestamp |-> time])

\* faulty variant, on which the frame of propose has to fail: the proposal
\* is recorded as committed
ProposeCommitted(limit, tool, agentId) ==
    /\ Len(proposals) < limit
    /\ Len(events) < MaxEvents
    /\ LET ks1      == ensureUserKey(keys, agentId)
           mirror1  == captureRequest(mirror, agentId, tool, now)
           mirrorId == mirror1[Len(mirror1)].id
           log1     == append(events, ks1, "SUGGESTION",
                              [mirrorRef |-> mirrorId, agentId |-> agentId,
                               proposedAction |-> tool, estimatedCost |-> 0],
                              agentId, now)
           proposal == [id |-> Len(proposals) + 1, action |-> [tool |-> tool],
                        mirrorRef |-> mirrorId, eventId |-> log1[Len(log1)].id,
                        status |-> "committed", createdAt |-> now]
       IN  /\ keys' = ks1
           /\ mirror' = mirror1
           /\ events' = log1
           /\ proposals' = Append(proposals, proposal)
           /\ ret' = Ret("propose", proposal.id, NoMandate, "ok", NoReceipt)
    /\ UNCHANGED <<calls, now>>

\* MCPFSAdapter.propose(action, context), while fewer than limit proposals
\* were made
ProposeUpTo(limit, tool, agentId) ==
    /\ Len(proposals) < limit
    /\ Len(events) < MaxEvents
    /\ LET ks1      == ensureUserKey(keys, agentId)
           mirror1  == captureRequest(mirror, agentId, tool, now)
           mirrorId == mirror1[Len(mirror1)].id
           log1     == append(events, ks1, "SUGGESTION",
                              [mirrorRef |-> mirrorId, agentId |-> agentId,
                               proposedAction |-> tool, estimatedCost |-> 0],
                              agentId, now)
           proposal == [id |-> Len(proposals) + 1, action |-> [tool |-> tool],
                        mirrorRef |-> mirrorId, eventId |-> log1[Len(log1)].id,
                        status |-> "pending", createdAt |-> now]
       IN  /\ keys' = ks1
           /\ mirror' = mirror1
           /\ events' = log1
           /\ proposals' = Append(proposals, proposal)
           /\ ret' = Ret("propose", proposal.id, NoMandate, "ok", NoReceipt)
    /\ UNCHANGED <<calls, now>>

\* MCPFSAdapter.propose(action, context)
Propose(tool, agentId) == ProposeUpTo(MaxProposals, tool, agentId)

\* ---------------------------------------------------------------- commit
\* Faulty variants of the commit helpers below.  Each property that is shown
\* to hold is also checked against one of them, where it has to fail.

\* a lookup that lets a rejected proposal through
LookupReopensRejected(props, proposalId) ==
    IF proposalId \notin DOMAIN props THEN "PROPOSAL_NOT_FOUND"
    ELSE IF props[proposalId].status = "committed" THEN "PROPOSAL_COMMITTED"
    ELSE "pending"

\* checkpoints without the scope check
CheckpointWithoutScope(tool, m, ks, log, time) ==
    IF ~verifyMandate(m, ks, log, time).valid THEN "INVALID_MANDATE"
    ELSE IF isMandateRevoked(m.mandate_id, log) THEN "REVOKED_MANDATE"
    ELSE "pass"

\* a commit that marks the proposal committed whatever the tool call did
StatusAlwaysCommitted(outcome) == "committed"

\* lookup at the head of commit: the error it throws, or "pending"
Lookup(props, proposalId) ==
    IF proposalId \notin DOMAIN props THEN "PROPOSAL_NOT_FOUND"
    ELSE CASE props[proposalId].status = "pending"   -> "pending"
           [] props[proposalId].status = "committed" -> "PROPOSAL_COMMITTED"
           [] props[proposalId].status = "rejected"  -> "PROPOSAL_REJECTED"

\* the three enforcement checkpoints, in order: the first that fails
Checkpoint(tool, m, ks, log, time) ==
    IF ~verifyMandate(m, ks, log, time).valid THEN "INVALID_MANDATE"
    ELSE IF isMandateRevoked(m.mandate_id, log) THEN "REVOKED_MANDATE"
    ELSE IF ~isActionInScope(tool, m) THEN "SCOPE_VIOLATION"
    ELSE "pass"

\* the details recorded with a rejection
RejectionDetails(reason, m, ks, log, time) ==
    CASE reason = "INVALID_MANDATE" -> verifyMandate(m, ks, log, time).errors
      [] reason = "REVOKED_MANDATE" -> <<"Authority no longer valid">>
      [] reason = "SCOPE_VIOLATION" -> <<"not permitted by mandate">>

\* recordRejection signs as the adapter identity
RejectionSigner == AdapterId

\* the status commit leaves the proposal in once the tool call has returned
\* or thrown
StatusAfterCall(outcome) == IF outcome = "ok" THEN "committed" ELSE "pending"

\* a checkpoint failed: status := rejected, recordRejection, throw
Reject(proposalId, m, reason) ==
    /\ proposals' = [proposals EXCEPT ![proposalId].status = "rejected"]
    /\ IF CanSign(keys, RejectionSigner)
       THEN /\ events' = append(events, keys, "PROPOSAL_REJECTED",
                                [proposalId |-> proposalId, reason |-> reason,
                                 details |-> RejectionDetails(reason, m, keys, events, now)],
                                RejectionSigner, now)
            /\ ret' = Ret("commit", proposalId, m, reason, NoReceipt)
       ELSE /\ events' = events
            /\ ret' = Ret("commit", proposalId, m, "KEY_NOT_FOUND", NoReceipt)
    /\ UNCHANGED <<keys, mirror, calls, now>>

\* all checkpoints passed: COMMITTED, tool call, receipt, RECEIPT_ISSUED
Execute(proposalId, m) ==
    LET proposal == proposals[proposalId]
        tool     == proposal.action.tool
    IN  IF ~CanSign(keys, m.delegate)
        THEN /\ ret' = Ret("commit", proposalId, m, "KEY_NOT_FOUND", NoReceipt)
             /\ UNCHANGED <<keys, events, proposals, mirror, calls, now>>
        ELSE LET log1    == append(events, keys, "COMMITTED",
                                   [proposalId |-> proposalId,
                                    mandateId |-> m.mandate_id, action |-> tool],
                                   m.delegate, now)
                 outcome == callTool(tool)
             IN  /\ calls' = Append(calls, [tool |-> tool, proposalId |-> proposalId])
                 /\ proposals' = [proposals EXCEPT
                                    ![proposalId].status = StatusAfterCall(outcome)]
                 /\ IF outcome = "throw"
                    THEN /\ events' = log1
                         /\ keys' = keys
                         /\ ret' = Ret("commit", proposalId, m, "TOOL_NOT_FOUND", NoReceipt)
                    ELSE LET ks1     == ensureUserKey(keys, m.issuer)
                             receipt == issueReceipt(Len(calls) + 1, m.mandate_id,
                                            AdapterId, tool, proposal.mirrorRef,
                                            hashCanonical(ToolOutput(tool, proposalId)),
                                            m.issuer, now, ks1, m.issuer)
                         IN  /\ keys' = ks1
                             /\ events' = append(log1, ks1, "RECEIPT_ISSUED",
                                            [receiptId |-> receipt.receipt_id,
                                             mandateId |-> m.mandate_id,
                                             proposalId |-> proposalId],
                                            m.issuer, now)
                             /\ ret' = Ret("commit", proposalId, m, "ok", receipt)
                 /\ UNCHANGED <<mirror, now>>

\* MCPFSAdapter.commit(proposalId, mandate)
Commit(proposalId, m) ==
    /\ LET found == Lookup(proposals, proposalId)
       IN  IF found # "pending"
           THEN /\ ret' = Ret("commit", proposalId, NoMandate, found, NoReceipt)
                /\ UNCHANGED <<keys, events, proposals, mirror, calls, now>>
           ELSE LET gate == Checkpoint(proposals[proposalId].action.tool, m,
                                       keys, events, now)
                IN  IF gate # "pass"
                    THEN Reject(proposalId, m, gate)
                    ELSE Execute(proposalId, m)
    /\ Len(events') <= MaxEvents

\* ------------------------------------------------------ mandates presented
\* the key pairs the actors will hold once provisioned
AllKeys == [a \in Actors |-> GenerateKey(a)]

\* mandates the issuer created and signed (createMandate, signMandate)
Mandate1 ==
    signMandate(createMandate(1, "user:alice", AdapterId, <<ReadFile>>,
                              [not_before |-> Unset, not_after |-> Early], Early),
                AllKeys, "user:alice")
Mandate2 ==
    signMandate(createMandate(2, "user:alice", AdapterId, <<FsStar>>,
                              [not_before |-> Late, not_after |-> Unset], Early),
                AllKeys, "user:alice")
Issued == {Mandate1, Mandate2}

\* a mandate nobody signed, and a signed one whose scope was widened afterwards
FakeMandate ==
    createMandate(0, "user:alice", AdapterId, <<ReadFile>>,
                  [not_before |-> Unset, not_after |-> Unset], Early)
Tampered == [Mandate1 EXCEPT !.scope.actions = <<Star>>]

Presentable == Issued \cup {Tampered, FakeMandate}
MandateIds  == {m.mandate_id : m \in Issued}

\* -------------------------------------------------------------------- Next
\* kernel operations called one after the other, each running to its end
Next ==
    \/ Tick /\ UNCHANGED tasks /\ UNCHANGED chainVars
    \/ \E a \in Issuers \cup {AdapterId} : EnsureUserKey(a) /\ UNCHANGED tasks /\ UNCHANGED chainVars
    \/ \E id \in MandateIds, a \in Revokers : RevokeMandate(id, a) /\ UNCHANGED tasks /\ UNCHANGED chainVars
    \/ \E t \in Tools, a \in Agents : Propose(t, a) /\ UNCHANGED tasks /\ UNCHANGED chainVars
    \/ \E p \in 1..(Len(proposals) + 1), m \in Presentable : Commit(p, m) /\ UNCHANGED tasks /\ UNCHANGED chainVars

Spec == Init /\ [][Next]_vars

\* -------------------------------------------------------- repeated propose
\* the kernel with room for MaxProposed proposals, made in the name of an
\* agent or of a user (context.agentId is any actor id)
Proposers == Agents \cup Issuers

\* the mandates presented to commit between proposals: a signed one and
\* one nobody signed
Shown == {Mandate1, FakeMandate}

NextPropose ==
    \/ \E a \in Issuers \cup {AdapterId} : EnsureUserKey(a) /\ UNCHANGED tasks /\ UNCHANGED chainVars
    \/ \E t \in Tools, a \in Proposers : ProposeUpTo(MaxProposed, t, a) /\ UNCHANGED tasks /\ UNCHANGED chainVars
    \/ \E p \in 1..(Len(proposals) + 1), m \in Shown : Commit(p, m) /\ UNCHANGED tasks /\ UNCHANGED chainVars

SpecPropose == Init /\ [][NextPropose]_vars

\* ---------------------------------------------------- overlapping operations
\* commit, revokeMandate and EventLog.append are async functions: each runs
\* to its next await, where other operations started meanwhile take their
\* turn.  A task is one such call; an action below is the code between two
\* awaits whose reads and writes of kernel state other tasks can tell apart.

\* the id of an event a task creates (ids are random, hence distinct)
TaskEventId(t, log) == (MaxAsyncEvents + 1) * t + Len(log) + 1

\* EventLog.append up to its await of keystore.sign: the event, chained to
\* what is the last stored event now, and signed
prepare(log, ks, type, payload, signer, time, id) ==
    LET unsigned == [id |-> id, type |-> type, timestamp |-> time,
                     payload |-> payload, signer |-> signer,
                     prev_hash |-> IF Len(log) > 0
                                   THEN hashCanonical(CanonSignedEvent(log[Len(log)]))
                                   ELSE NoHash,
                     signature |-> BadSignature]
    IN  [unsigned EXCEPT !.signature = sign(CanonEvent(unsigned), ks[signer])]

\* EventLog.append after the await: this.events.push(fullEvent)
push(log, evt) == Append(log, evt)

Done(task, outcome) == [task EXCEPT !.pc = "done", !.outcome = outcome]

\* task slots are taken in order
Free(t) == tasks[t].op = "idle" /\ (IF t = 1 THEN TRUE ELSE tasks[t - 1].op # "idle")

\* commit(proposalId, mandate) is called: lookup, then verifyMandate, which
\* reads the clock, the log and the keystore before commit awaits it
CallCommit(t, proposalId, m) ==
    /\ Free(t)
    /\ LET found == Lookup(proposals, proposalId)
           task  == [Idle EXCEPT !.op = "commit", !.pid = proposalId]
       IN  tasks' = [tasks EXCEPT ![t] =
                IF found # "pending"
                THEN Done(task, found)
                ELSE [task EXCEPT !.pc = "verifying", !.mandate = m,
                                  !.check = verifyMandate(m, keys, events, now)]]
    /\ UNCHANGED <<keys, events, proposals, mirror, calls, now, ret>>

\* commit resumes with verifyMandate's result: the checkpoints, then either
\* status := rejected and recordRejection, or the COMMITTED event, each up to
\* the await inside EventLog.append
ResumeVerified(t) ==
    /\ tasks[t].pc = "verifying"
    /\ LET task == tasks[t]
           m    == task.mandate
           p    == task.pid
           tool == proposals[p].action.tool
           gate == IF ~task.check.valid THEN "INVALID_MANDATE"
                   ELSE IF isMandateRevoked(m.mandate_id, events) THEN "REVOKED_MANDATE"
                   ELSE IF ~isActionInScope(tool, m) THEN "SCOPE_VIOLATION"
                   ELSE "pass"
           details == IF gate = "INVALID_MANDATE" THEN task.check.errors
                      ELSE RejectionDetails(gate, m, keys, events, now)
       IN  IF gate # "pass"
           THEN /\ proposals' = [proposals EXCEPT ![p].status = "rejected"]
                /\ tasks' = [tasks EXCEPT ![t] =
                     IF CanSign(keys, RejectionSigner)
                     THEN [task EXCEPT !.pc = "appending", !.then = gate,
                              !.evt = prepare(events, keys, "PROPOSAL_REJECTED",
                                          [proposalId |-> p, reason |-> gate,
                                           details |-> details],
                                          RejectionSigner, now, TaskEventId(t, events))]
                     ELSE Done(task, "KEY_NOT_FOUND")]
           ELSE /\ proposals' = proposals
                /\ tasks' = [tasks EXCEPT ![t] =
                     IF CanSign(keys, m.delegate)
                     THEN [task EXCEPT !.pc = "appending", !.then = "execute",
                              !.evt = prepare(events, keys, "COMMITTED",
                                          [proposalId |-> p, mandateId |-> m.mandate_id,
                                           action |-> tool],
                                          m.delegate, now, TaskEventId(t, events))]
                     ELSE Done(task, "KEY_NOT_FOUND")]
    /\ UNCHANGED <<keys, events, mirror, calls, now, ret>>

\* EventLog.append resumes and pushes the event; its caller goes on to its
\* next await: a rejection throws its tag, revokeMandate returns, commit
\* calls the tool after COMMITTED and sets the status and returns after
\* RECEIPT_ISSUED
ResumeAppended(t) ==
    /\ tasks[t].pc = "appending"
    /\ Len(events) < MaxAsyncEvents
    /\ LET task == tasks[t]
           p    == task.pid
       IN  /\ events' = push(events, task.evt)
           /\ CASE task.then = "execute" ->
                     LET tool    == proposals[p].action.tool
                         outcome == callTool(tool)
                     IN  /\ calls' = Append(calls, [tool |-> tool, proposalId |-> p])
                         /\ proposals' = proposals
                         /\ tasks' = [tasks EXCEPT ![t] =
                                IF outcome = "throw" THEN Done(task, "TOOL_NOT_FOUND")
                                ELSE [task EXCEPT !.pc = "called"]]
                [] task.then = "return" ->
                     /\ proposals' = [proposals EXCEPT ![p].status = "committed"]
                     /\ calls' = calls
                     /\ tasks' = [tasks EXCEPT ![t] = Done(task, "ok")]
                [] OTHER ->
                     /\ proposals' = proposals
                     /\ calls' = calls
                     /\ tasks' = [tasks EXCEPT ![t] =
                            Done(task, IF task.then = "revoked" THEN "ok" ELSE task.then)]
    /\ UNCHANGED <<keys, mirror, now, ret>>

\* commit resumes with the tool's output: ensureUserKey(issuer), issueReceipt,
\* then the RECEIPT_ISSUED event up to the await inside EventLog.append
ResumeCalled(t) ==
    /\ tasks[t].pc = "called"
    /\ LET task    == tasks[t]
           m       == task.mandate
           p       == task.pid
           tool    == proposals[p].action.tool
           ks1     == ensureUserKey(keys, m.issuer)
           receipt == issueReceipt(Len(calls) + t, m.mandate_id, AdapterId, tool,
                          proposals[p].mirrorRef,
                          hashCanonical(ToolOutput(tool, p)), m.issuer, now, ks1, m.issuer)
       IN  /\ keys' = ks1
           /\ tasks' = [tasks EXCEPT ![t] =
                  [task EXCEPT !.pc = "appending", !.then = "return",
                     !.receipt = receipt,
                     !.evt = prepare(events, ks1, "RECEIPT_ISSUED",
                                 [receiptId |-> receipt.receipt_id,
                                  mandateId |-> m.mandate_id, proposalId |-> p],
                                 m.issuer, now, TaskEventId(t, events))]]
    /\ UNCHANGED <<events, proposals, mirror, calls, now, ret>>

\* revokeMandate is called: EventLog.append up to its await
CallRevoke(t, mandateId, revokedBy) ==
    /\ Free(t)
    /\ LET task == [Idle EXCEPT !.op = "revokeMandate"]
       IN  tasks' = [tasks EXCEPT ![t] =
                IF CanSign(keys, revokedBy)
                THEN [task EXCEPT !.pc = "appending", !.then = "revoked",
                         !.evt = prepare(events, keys, "MANDATE_REVOKE",
                                     [mandate_id |-> mandateId, reason |-> "policy_change",
                                      revoked_by |-> revokedBy, revoked_at |-> now],
                                     revokedBy, now, TaskEventId(t, events))]
                ELSE Done(task, "KEY_NOT_FOUND")]
    /\ UNCHANGED <<keys, events, proposals, mirror, calls, now, ret>>

\* kernel operations started while others are suspended at an await
NextAsync ==
    \/ \E a \in Issuers \cup {AdapterId} : EnsureUserKey(a) /\ UNCHANGED tasks /\ UNCHANGED chainVars
    \/ \E tl \in Tools, a \in Agents : Propose(tl, a) /\ UNCHANGED tasks /\ UNCHANGED chainVars
    \/ \E t \in 1..MaxTasks, p \in 1..(Len(proposals) + 1), m \in Presentable : CallCommit(t, p, m) /\ UNCHANGED chainVars
    \/ \E t \in 1..MaxTasks, id \in MandateIds, a \in Revokers : CallRevoke(t, id, a) /\ UNCHANGED chainVars
    \/ \E t \in 1..MaxTasks : ResumeVerified(t) /\ UNCHANGED chainVars
    \/ \E t \in 1..MaxTasks : ResumeAppended(t) /\ UNCHANGED chainVars
    \/ \E t \in 1..MaxTasks : ResumeCalled(t) /\ UNCHANGED chainVars

SpecAsync == Init /\ [][NextAsync]_vars

\* ------------------------------------------------- the event log as a store
\* an EventLog used directly: append, export / import of stored sequences
\* (also ones changed while they were outside the log), and verifyChain
\* against a keystore of the caller's choice

\* a faulty variant of import, on which the round trip has to fail

\* an import that loses the last event
importWithoutLast(evts) == SubSeq(evts, 1, Len(evts) - 1)

\* EventLog.export: a copy of the stored array
export(log) == [i \in 1..Len(log) |-> log[i]]

\* EventLog.import: the log's array becomes a copy of the given one
import(evts) == [i \in 1..Len(evts) |-> evts[i]]

\* an exported sequence changed outside the log: the payload of event i
\* rewritten (signature kept), event i removed, or events i and i+1 exchanged
Rewritten(evts, i) == [evts EXCEPT ![i].payload.mandate_id = 3 - @]
Removed(evts, i)   == SubSeq(evts, 1, i - 1) \o SubSeq(evts, i + 1, Len(evts))
Exchanged(evts, i) == [evts EXCEPT ![i] = evts[i + 1], ![i + 1] = evts[i]]

\* a new InMemoryKeystore, and a keystore in which other key pairs were
\* generated for the same actors
EmptyKeystore == [a \in Actors |-> NoKey]
OtherKeystore == [a \in Actors |-> GenerateKey(a) + Len(StringTable)]

\* eventLog.append({type: 'MANDATE_REVOKE', payload, signer}, keystore)
AppendEvent(mandateId, signer) ==
    /\ Len(events) < MaxStored
    /\ IF CanSign(keys, signer)
       THEN /\ events' = append(events, keys, "MANDATE_REVOKE",
                                [mandate_id |-> mandateId, reason |-> "policy_change",
                                 revoked_by |-> signer, revoked_at |-> now],
                                signer, now)
            /\ ret' = [op |-> "append", outcome |-> "ok"]
       ELSE /\ events' = events
            /\ ret' = [op |-> "append", outcome |-> "KEY_NOT_FOUND"]
    /\ UNCHANGED <<keys, proposals, mirror, calls, now, tasks>>

\* the log holds what append stored, in the order it was stored (the events
\* are numbered as stored); sequences are changed once
AsAppended(log) == \A i \in DOMAIN log : log[i].id = i

\* a sequence exported from the log is changed and imported
ImportChanged(kind, i) ==
    /\ i \in DOMAIN events
    /\ AsAppended(events)
    /\ verifyChain(events, keys).valid
    /\ kind = "exchanged" => i < Len(events)
    /\ LET evts == export(events)
       IN  events' = import(CASE kind = "rewritten" -> Rewritten(evts, i)
                              [] kind = "removed"   -> Removed(evts, i)
                              [] kind = "exchanged" -> Exchanged(evts, i))
    /\ ret' = [op |-> "import", kind |-> kind, at |-> i]
    /\ UNCHANGED <<keys, proposals, mirror, calls, now, tasks>>

\* the log is exported and imported into a fresh EventLog, which takes its
\* place
Rehydrate ==
    /\ events' = import(export(events))
    /\ ret' = [op |-> "rehydrate"]
    /\ UNCHANGED <<keys, proposals, mirror, calls, now, tasks>>

\* eventLog.verifyChain(keystore)
VerifyChain(ks) ==
    /\ ret' = [op |-> "verifyChain", keystore |-> ks, result |-> verifyChain(events, ks)]
    /\ UNCHANGED <<keys, events, proposals, mirror, calls, now, tasks>>

NextStore ==
    \/ \E a \in Issuers : EnsureUserKey(a) /\ UNCHANGED tasks /\ UNCHANGED chainVars
    \/ \E id \in MandateIds, a \in Revokers : AppendEvent(id, a) /\ UNCHANGED chainVars
    \/ \E kind \in {"rewritten", "removed", "exchanged"}, i \in 1..MaxStored : ImportChanged(kind, i) /\ UNCHANGED chainVars
    \/ Rehydrate /\ UNCHANGED chainVars
    \/ \E ks \in {keys, EmptyKeystore, OtherKeystore} : VerifyChain(ks) /\ UNCHANGED chainVars

SpecStore == Init /\ [][NextStore]_vars

\* ======================================================================
\* Properties
\* ======================================================================

\* the gates, stated on the state in which commit is called
SignedByIssuer(m) ==
    /\ keys[m.issuer] # NoKey
    /\ m.signature = sign(canonicalizeMandate(m), keys[m.issuer])

InWindow(m) ==
    /\ m.validity.not_before = Unset \/ m.validity.not_before <= now
    /\ m.validity.not_after = Unset \/ m.validity.not_after >= now

Unrevoked(m) ==
    \A i \in DOMAIN events :
        events[i].type = "MANDATE_REVOKE" => events[i].payload.mandate_id # m.mandate_id

Matches(pattern, tool) ==
    \/ pattern = <<"*">>
    \/ pattern = tool
    \/ /\ Len(pattern) >= 2
       /\ pattern[Len(pattern) - 1] = ":"
       /\ pattern[Len(pattern)] = "*"
       /\ Len(tool) >= Len(pattern) - 1
       /\ \A k \in 1..(Len(pattern) - 1) : tool[k] = pattern[k]

Covers(m, tool) == \E i \in DOMAIN m.scope.actions : Matches(m.scope.actions[i], tool)

Pending(p) == p \in DOMAIN proposals /\ proposals[p].status = "pending"

\* this step is commit(p, m) called on a pending proposal
CommitStep(p, m) == Pending(p) /\ ret'.op = "commit" /\ ret'.pid = p /\ ret'.mandate = m

\* event i names proposal p
Names(i, p, type) ==
    /\ events[i].type = type
    /\ events[i].payload.proposalId = p

Concerns(i, p) ==
    \/ events[i].type = "SUGGESTION" /\ events[i].id = proposals[p].eventId
    \/ \E type \in {"COMMITTED", "RECEIPT_ISSUED", "PROPOSAL_REJECTED"} : Names(i, p, type)

SignatureVerifies(evt) ==
    /\ keys[evt.signer] # NoKey
    /\ evt.signature = sign(CanonEvent(evt), keys[evt.signer])

\* the events a step appended
Appended == SubSeq(events', Len(events) + 1, Len(events'))

\* C1: the tool executor is invoked only by a commit call in which all three
\* gates passed: the presented mandate is signed by its issuer's key and inside
\* its validity window, no MANDATE_REVOKE for its mandate_id is in the log, and
\* the proposal's tool matches mandate.scope.actions.
C1_ExecutorOnlyBehindGates ==
    [][calls' # calls =>
         /\ ret'.op = "commit"
         /\ Pending(ret'.pid)
         /\ SignedByIssuer(ret'.mandate)
         /\ InWindow(ret'.mandate)
         /\ Unrevoked(ret'.mandate)
         /\ Covers(ret'.mandate, proposals[ret'.pid].action.tool)]_vars

\* the executor has been invoked by a commit
C1_ExecutorInvoked ==
    /\ calls # <<>>
    /\ ret.op = "commit"
    /\ ret.outcome = "ok"

\* C2: a COMMITTED event for a proposal implies that no PROPOSAL_REJECTED
\* event for the same proposal is anywhere in the log.
C2_CommittedExcludesRejected ==
    \A i, j \in DOMAIN events :
        events[i].type = "COMMITTED" =>
            ~Names(j, events[i].payload.proposalId, "PROPOSAL_REJECTED")

\* a proposal the log records both as committed and, later, as rejected
C2_CommittedThenRejected ==
    \E i, j \in DOMAIN events :
        /\ i < j
        /\ events[i].type = "COMMITTED"
        /\ Names(j, events[i].payload.proposalId, "PROPOSAL_REJECTED")
        /\ proposals[events[i].payload.proposalId].status = "rejected"

\* C3: happy path: commit of a pending proposal with a mandate that is signed
\* by its issuer, in its window, unrevoked and covering the tool (a tool the
\* executor offers) succeeds: the executor is called exactly once, the status
\* becomes committed, exactly COMMITTED and RECEIPT_ISSUED are appended after
\* the SUGGESTION (length 3 from an empty log), and the chain verifies.
C3_HappyPath ==
    [][\A p \in DOMAIN proposals, m \in Presentable :
         ( /\ CommitStep(p, m)
           /\ SignedByIssuer(m) /\ InWindow(m) /\ Unrevoked(m)
           /\ Covers(m, proposals[p].action.tool)
           /\ proposals[p].action.tool \in AvailableTools )
         => /\ ret'.outcome = "ok"
            /\ Len(calls') = Len(calls) + 1
            /\ proposals'[p].status = "committed"
            /\ Len(Appended) = 2
            /\ Appended[1].type = "COMMITTED"
            /\ Appended[2].type = "RECEIPT_ISSUED"
            /\ (Len(events) = 1 => Len(events') = 3)
            /\ verifyChain(events', keys').valid]_vars

\* the happy-path call failed on a missing signing key and left the proposal
\* pending
C3_HappyPathKeyMissing ==
    /\ ret.op = "commit"
    /\ ret.outcome = "KEY_NOT_FOUND"
    /\ Pending(ret.pid)
    /\ SignedByIssuer(ret.mandate) /\ InWindow(ret.mandate) /\ Unrevoked(ret.mandate)
    /\ Covers(ret.mandate, proposals[ret.pid].action.tool)
    /\ proposals[ret.pid].action.tool \in AvailableTools
    /\ calls = <<>>

\* C4: gate 1: commit of a pending proposal with a mandate that fails
\* verification (bad signature, unknown issuer key, outside the window) sets
\* the status to rejected, appends exactly one PROPOSAL_REJECTED with reason
\* INVALID_MANDATE and no COMMITTED, does not call the executor, and fails
\* tagged INVALID_MANDATE.
C4_InvalidMandateRejected ==
    [][\A p \in DOMAIN proposals, m \in Presentable :
         ( CommitStep(p, m) /\ ~(SignedByIssuer(m) /\ InWindow(m)) )
         => /\ proposals'[p].status = "rejected"
            /\ Len(Appended) = 1
            /\ Appended[1].type = "PROPOSAL_REJECTED"
            /\ Appended[1].payload.proposalId = p
            /\ Appended[1].payload.reason = "INVALID_MANDATE"
            /\ calls' = calls
            /\ ret'.outcome = "INVALID_MANDATE"]_vars

\* a mandate failed gate 1, the proposal is rejected, and the log holds no
\* rejection event
C4_RejectionUnrecorded ==
    /\ ret.op = "commit"
    /\ ret.outcome = "KEY_NOT_FOUND"
    /\ ~SignedByIssuer(ret.mandate)
    /\ proposals[ret.pid].status = "rejected"
    /\ \A i \in DOMAIN events : events[i].type # "PROPOSAL_REJECTED"

\* the SUGGESTION of proposal p is in the log before index i
ProposedBefore(p, i) ==
    \E s \in 1..(i - 1) : events[s].type = "SUGGESTION" /\ events[s].id = proposals[p].eventId

\* m was revoked after proposal p was made
RevokedAfterPropose(m, p) ==
    \E i \in DOMAIN events :
        /\ events[i].type = "MANDATE_REVOKE"
        /\ events[i].payload.mandate_id = m.mandate_id
        /\ ProposedBefore(p, i)

\* C5: revoked mid-flight: when a MANDATE_REVOKE for a correctly signed,
\* in-window mandate was appended after propose, commit with that mandate
\* fails tagged REVOKED_MANDATE and the status becomes rejected.
C5_RevokedMidFlight ==
    [][\A p \in DOMAIN proposals, m \in Presentable :
         ( /\ CommitStep(p, m)
           /\ SignedByIssuer(m) /\ InWindow(m)
           /\ RevokedAfterPropose(m, p) )
         => /\ ret'.outcome = "REVOKED_MANDATE"
            /\ proposals'[p].status = "rejected"]_vars

\* a commit with a signed, in-window mandate revoked after propose was
\* refused as INVALID_MANDATE, and recorded so
C5_RevokedReportedInvalid ==
    /\ ret.op = "commit"
    /\ ret.outcome = "INVALID_MANDATE"
    /\ SignedByIssuer(ret.mandate) /\ InWindow(ret.mandate)
    /\ RevokedAfterPropose(ret.mandate, ret.pid)
    /\ events[Len(events)].type = "PROPOSAL_REJECTED"
    /\ events[Len(events)].payload.details = <<"revoked">>

\* C6: gate 3: commit of a pending proposal with a valid, unrevoked mandate
\* whose scope.actions does not match the tool fails tagged SCOPE_VIOLATION,
\* sets the status to rejected and does not call the executor.
C6_ScopeViolationRejected ==
    [][\A p \in DOMAIN proposals, m \in Presentable :
         ( /\ CommitStep(p, m)
           /\ SignedByIssuer(m) /\ InWindow(m) /\ Unrevoked(m)
           /\ ~Covers(m, proposals[p].action.tool) )
         => /\ ret'.outcome = "SCOPE_VIOLATION"
            /\ proposals'[p].status = "rejected"
            /\ calls' = calls]_vars

\* an out-of-scope commit failed on the missing adapter key instead
C6_ScopeViolationUntagged ==
    /\ ret.op = "commit"
    /\ ret.outcome = "KEY_NOT_FOUND"
    /\ SignedByIssuer(ret.mandate) /\ InWindow(ret.mandate) /\ Unrevoked(ret.mandate)
    /\ ~Covers(ret.mandate, proposals[ret.pid].action.tool)
    /\ proposals[ret.pid].status = "rejected"

\* the error commit owes a proposal id that is not pending
TerminalError(p) ==
    IF p \notin DOMAIN proposals THEN "PROPOSAL_NOT_FOUND"
    ELSE IF proposals[p].status = "committed" THEN "PROPOSAL_COMMITTED"
    ELSE "PROPOSAL_REJECTED"

\* C7: terminal states are absorbing: commit on an unknown, committed or
\* rejected proposal fails PROPOSAL_NOT_FOUND, PROPOSAL_COMMITTED or
\* PROPOSAL_REJECTED whatever the mandate; it appends no event, does not call
\* the executor and changes no status; a committed or rejected status never
\* changes again.
C7_TerminalAbsorbing ==
    [][/\ (ret'.op = "commit" /\ ~Pending(ret'.pid))
          => /\ ret'.outcome = TerminalError(ret'.pid)
             /\ events' = events
             /\ calls' = calls
             /\ proposals' = proposals
       /\ \A p \in DOMAIN proposals :
            proposals[p].status \in {"committed", "rejected"}
              => proposals'[p].status = proposals[p].status]_vars

\* a second commit on a committed proposal was refused
C7_TerminalRefused ==
    /\ ret.op = "commit"
    /\ ret.pid \in DOMAIN proposals
    /\ ret.outcome = "PROPOSAL_COMMITTED"
    /\ proposals[ret.pid].status = "committed"

\* C8: every receipt returned by a successful commit verifies with
\* verifyReceipt under the kernel's keystore (the key of the receipt's actor).
C8_ReceiptVerifies ==
    (ret.op = "commit" /\ ret.outcome = "ok") => verifyReceipt(ret.receipt, keys).valid

\* a successful commit returned a receipt signed with a key that is not its
\* actor's
C8_ReceiptSignedByIssuer ==
    /\ ret.op = "commit"
    /\ ret.outcome = "ok"
    /\ ret.receipt.actor = AdapterId
    /\ ret.receipt.signature.key = keys[ret.mandate.issuer]
    /\ keys[ret.mandate.issuer] # keys[ret.receipt.actor]
    /\ verifyReceipt(ret.receipt, keys).errors = <<"Invalid signature">>

\* C9: each proposal whose status is committed has a COMMITTED event and a
\* later RECEIPT_ISSUED event naming it, both with signatures that verify
\* under their signers' keys.
C9_CommittedHasSignedEvents ==
    \A p \in DOMAIN proposals :
        proposals[p].status = "committed" =>
            \E i, j \in DOMAIN events :
                /\ i < j
                /\ Names(i, p, "COMMITTED")
                /\ Names(j, p, "RECEIPT_ISSUED")
                /\ SignatureVerifies(events[i])
                /\ SignatureVerifies(events[j])

\* some proposal is committed
C9_SomeCommitted ==
    \E p \in DOMAIN proposals : proposals[p].status = "committed"

C11_PendingHasNoCommitted ==
    \A p \in DOMAIN proposals :
        proposals[p].status = "pending" =>
            \A i \in DOMAIN events : ~Names(i, p, "COMMITTED")

\* the executor threw, the proposal is still pending and its COMMITTED event
\* is the last of the log
C11_PendingAfterExecutorThrew ==
    /\ ret.op = "commit"
    /\ ret.outcome = "TOOL_NOT_FOUND"
    /\ proposals[ret.pid].status = "pending"
    /\ Names(Len(events), ret.pid, "COMMITTED")

\* the tags a gate rejection fails with
StableTags == {"INVALID_MANDATE", "REVOKED_MANDATE", "SCOPE_VIOLATION"}

\* C12: each proposal whose status is rejected has a PROPOSAL_REJECTED event
\* naming it, and the commit that rejected it failed with one of the tags
\* INVALID_MANDATE, REVOKED_MANDATE, SCOPE_VIOLATION, whatever keys the
\* keystore holds.
C12_RejectionLogged ==
    /\ \A p \in DOMAIN proposals :
         proposals[p].status = "rejected" =>
             \E i \in DOMAIN events : Names(i, p, "PROPOSAL_REJECTED")
    /\ ( /\ ret.op = "commit"
         /\ ret.mandate # NoMandate
         /\ proposals[ret.pid].status = "rejected" )
       => ret.outcome \in StableTags

\* a proposal was rejected by a commit that failed with no stable tag, and no
\* event names the proposal as rejected
C12_RejectedSilently ==
    /\ ret.op = "commit"
    /\ ret.mandate # NoMandate
    /\ proposals[ret.pid].status = "rejected"
    /\ ret.outcome \notin StableTags
    /\ keys[AdapterId] = NoKey
    /\ \A i \in DOMAIN events : ~Names(i, ret.pid, "PROPOSAL_REJECTED")

\* C13: when the tool executor throws during commit, an EXECUTION_FAILED
\* event signed by the adapter identity is appended and the executor's error
\* is propagated to the caller.
C13_ExecutionFailureLogged ==
    [][( /\ calls' # calls
         /\ calls'[Len(calls')].tool \notin AvailableTools )
       => /\ ret'.outcome = "TOOL_NOT_FOUND"
          /\ Len(events') > Len(events)
          /\ events'[Len(events')].type = "EXECUTION_FAILED"
          /\ events'[Len(events')].signer = AdapterId]_vars

\* the executor threw and the log holds no EXECUTION_FAILED event
C13_ExecutorThrewUnlogged ==
    /\ ret.op = "commit"
    /\ ret.outcome = "TOOL_NOT_FOUND"
    /\ calls # <<>>
    /\ calls[Len(calls)].tool \notin AvailableTools
    /\ \A i \in DOMAIN events : events[i].type # "EXECUTION_FAILED"

\* the commit calls made on proposal p
CommitTasks(p) == {t \in 1..MaxTasks : tasks[t].op = "commit" /\ tasks[t].pid = p}

\* the executor invocations made for proposal p
CallsFor(p) == {i \in DOMAIN calls : calls[i].proposalId = p}

\* C14: commit observes the pending status atomically with its transition:
\* for any interleaving of commit calls on one pending proposal (whose tool
\* the executor offers), at most one of them invokes the executor and at most
\* one returns a receipt.
C14_CommitAtomic ==
    \A p \in DOMAIN proposals :
        proposals[p].action.tool \in AvailableTools =>
            /\ Cardinality(CallsFor(p)) <= 1
            /\ Cardinality({t \in CommitTasks(p) : tasks[t].outcome = "ok"}) <= 1

\* two overlapping commit calls on one proposal both returned a receipt
C14_TwoReceipts ==
    \E t1, t2 \in 1..MaxTasks :
        /\ t1 < t2
        /\ tasks[t1].op = "commit" /\ tasks[t2].op = "commit"
        /\ tasks[t1].pid = tasks[t2].pid
        /\ tasks[t1].outcome = "ok" /\ tasks[t2].outcome = "ok"
        /\ tasks[t1].receipt # tasks[t2].receipt
        /\ Cardinality(CallsFor(tasks[t1].pid)) = 2

\* C15: for any interleaving of concurrently started EventLog.append calls
\* the stored sequence is hash-chained in storage order: every stored event
\* after the first has prev_hash equal to the hash of the event stored before
\* it, so verifyChain stays valid.
C15_ChainedInStorageOrder ==
    /\ \A i \in 2..Len(events) :
         events[i].prev_hash = hashCanonical(CanonSignedEvent(events[i - 1]))
    /\ verifyChain(events, keys).valid

\* two appends that overlapped are stored one after the other with the same
\* prev_hash
C15_StalePrevHash ==
    \E i \in 2..Len(events) :
        /\ events[i].prev_hash = events[i - 1].prev_hash
        /\ events[i].id # events[i - 1].id
        /\ "Hash chain broken" \in {verifyChain(events, keys).errors[k] : k \in DOMAIN verifyChain(events, keys).errors}

\* C16: after any sequence of non-overlapping propose, commit (successful,
\* rejected or failed) and revokeMandate calls, verifyChain(keystore) on the
\* kernel's log returns valid with eventsVerified equal to the log length.
C16_ChainVerifies ==
    LET result == verifyChain(events, keys)
    IN  /\ result.valid
        /\ result.eventsVerified = Len(events)

\* a log of a proposal, a revocation and a rejected commit
C16_MixedLog ==
    /\ Len(events) >= 3
    /\ \E i \in DOMAIN events : events[i].type = "MANDATE_REVOKE"
    /\ events[Len(events)].type = "PROPOSAL_REJECTED"
    /\ ret.op = "commit"
    /\ ret.outcome \in StableTags

\* log a is a prefix of log b
IsPrefix(a, b) == Len(a) <= Len(b) /\ SubSeq(b, 1, Len(a)) = a

\* C18: the log is append-only under kernel operations: the log before each
\* call is a prefix of the log after it; a call that fails on a missing
\* signer key leaves the log as it was; the COMMITTED event stays when a
\* later step of commit fails.
C18_AppendOnly ==
    [][/\ IsPrefix(events, events')
       /\ ret'.outcome = "KEY_NOT_FOUND" => events' = events
       /\ (ret'.op = "commit" /\ ret'.outcome = "TOOL_NOT_FOUND")
            => /\ Len(events') = Len(events) + 1
               /\ events'[Len(events')].type = "COMMITTED"]_vars

\* a commit failed on a missing key with events already in the log
C18_FailedAppendOnLog ==
    /\ ret.op = "commit"
    /\ ret.outcome = "KEY_NOT_FOUND"
    /\ Len(events) >= 2

\* ------------------------------------------------------ mandate lifecycle
\* create -> sign -> verify -> revoke, by a caller holding the keystore and
\* the event log

\* validity windows: each end unset, at the first or at the second instant;
\* a window may also open after every reading of the clock
Windows ==
    [not_before : {Unset, Early, Late, Beyond}, not_after : {Unset, Early, Late}]

\* createMandate(params): unsigned mandates of the issuer
Created ==
    {createMandate(id, i, AdapterId, <<ReadFile>>, v, Early) :
        id \in MandateIds, i \in Issuers, v \in Windows}

\* the task slot of the caller that runs the lifecycle
Caller == 1

\* key ids passed to signMandate
SignerKeys == Issuers \cup Agents

\* signed = await signMandate(mandate, keystore, signerKeyId)
SignMandate(t, unsigned, signer) ==
    /\ Free(t)
    /\ tasks' = [tasks EXCEPT ![t] =
             IF CanSign(keys, signer)
             THEN [Idle EXCEPT !.op = "signMandate", !.pc = "signed",
                               !.mandate = signMandate(unsigned, keys, signer)]
             ELSE Done([Idle EXCEPT !.op = "signMandate"], "KEY_NOT_FOUND")]
    /\ UNCHANGED <<keys, events, proposals, mirror, calls, now, ret>>

\* result = await verifyMandate(signed, keystore, eventLog)
VerifyMandate(t) ==
    /\ tasks[t].op = "signMandate"
    /\ tasks[t].pc \in {"signed", "verified"}
    /\ tasks' = [tasks EXCEPT ![t].pc = "verified",
                              ![t].check = verifyMandate(tasks[t].mandate, keys, events, now)]
    /\ UNCHANGED <<keys, events, proposals, mirror, calls, now, ret>>

NextMandate ==
    \/ Tick /\ UNCHANGED tasks /\ UNCHANGED chainVars
    \/ \E a \in SignerKeys : EnsureUserKey(a) /\ UNCHANGED tasks /\ UNCHANGED chainVars
    \/ \E m \in Created, a \in SignerKeys : SignMandate(Caller, m, a) /\ UNCHANGED chainVars
    \/ VerifyMandate(Caller) /\ UNCHANGED chainVars
    \/ \E id \in MandateIds, a \in SignerKeys : Revoke(MaxRepeats, id, a) /\ UNCHANGED tasks /\ UNCHANGED chainVars

SpecMandate == Init /\ [][NextMandate]_vars

\* ------------------------------------------------------------ scope checks
\* isActionAllowed, isResourceAllowed and the adapter's isActionInScope as
\* functions of strings, which are sequences of characters here; each
\* behaviour is one call

\* the characters of action names, resource names and patterns: two
\* letters, the separator and the wildcard
Chars == {"a", "s", ":", "*"}

Strings == UNION {[1..n -> Chars] : n \in 0..MaxLen}

\* scope lists: empty, one pattern, or two of a few patterns
FewPatterns == {<<"a">>, <<"a", ":", "*">>, <<"*">>}
Scopes == {<<>>} \cup {<<p>> : p \in Strings} \cup {<<p, q>> : p, q \in FewPatterns}

\* a mandate with the given scope lists
ScopeMandate(actions, resources) ==
    [mandate_id |-> 0, issuer |-> "user:alice", delegate |-> "agent:a",
     scope |-> [actions |-> actions, resources |-> resources],
     validity |-> [not_before |-> Unset, not_after |-> Unset],
     created_at |-> Early, signature |-> BadSignature]

\* faulty variant, on which the prefix rule has to fail: the separator is
\* dropped from the prefix together with the wildcard
isActionAllowedBarePrefix(m, action) ==
    \E i \in 1..Len(m.scope.actions) :
        LET allowed == m.scope.actions[i]
        IN  \/ allowed = Star
            \/ allowed = action
            \/ (endsWith(allowed, <<":", "*">>)
                  /\ startsWith(action, dropLast(dropLast(allowed))))

isActionAllowed(m, action) ==
    \E i \in 1..Len(m.scope.actions) :
        LET allowed == m.scope.actions[i]
        IN  \/ allowed = Star
            \/ allowed = action
            \/ (endsWith(allowed, <<":", "*">>) /\ startsWith(action, dropLast(allowed)))

isResourceAllowed(m, resource) ==
    \E i \in 1..Len(m.scope.resources) :
        LET allowed == m.scope.resources[i]
        IN  \/ allowed = Star
            \/ allowed = resource
            \/ (endsWith(allowed, <<":", "*">>) /\ startsWith(resource, dropLast(allowed)))

\* isActionAllowed(mandate, action)
IsActionAllowed(scope, action) ==
    /\ ret' = [op |-> "isActionAllowed", scope |-> scope, value |-> action,
               result |-> isActionAllowed(ScopeMandate(scope, <<>>), action)]
    /\ UNCHANGED <<keys, events, proposals, mirror, calls, now, tasks>>

\* isResourceAllowed(mandate, resource)
IsResourceAllowed(scope, resource) ==
    /\ ret' = [op |-> "isResourceAllowed", scope |-> scope, value |-> resource,
               result |-> isResourceAllowed(ScopeMandate(<<>>, scope), resource)]
    /\ UNCHANGED <<keys, events, proposals, mirror, calls, now, tasks>>

\* the adapter's scope gate: this.isActionInScope(proposal.action.tool, mandate)
IsActionInScope(scope, action) ==
    /\ ret' = [op |-> "isActionInScope", scope |-> scope, value |-> action,
               result |-> isActionInScope(action, ScopeMandate(scope, <<>>))]
    /\ UNCHANGED <<keys, events, proposals, mirror, calls, now, tasks>>

\* budget caps: unset or a number; values asked about reach one past the
\* largest cap
Caps   == {Unset} \cup 0..MaxValue
Values == 0..(MaxValue + 1)

\* a mandate whose scope carries the cap
BudgetMandate(cap) ==
    [ScopeMandate(<<>>, <<>>) EXCEPT
        !.scope = [actions |-> <<>>, resources |-> <<>>, max_value |-> cap]]

\* faulty variant, on which a cap of zero has to fail: a zero cap read as
\* no cap
isWithinBudgetZeroUnset(m, value) ==
    IF m.scope.max_value = Unset \/ m.scope.max_value = 0 THEN TRUE
    ELSE value <= m.scope.max_value

isWithinBudget(m, value) ==
    IF m.scope.max_value = Unset THEN TRUE
    ELSE value <= m.scope.max_value

\* isWithinBudget(mandate, value)
IsWithinBudget(cap, value) ==
    /\ ret' = [op |-> "isWithinBudget", cap |-> cap, value |-> value,
               result |-> isWithinBudget(BudgetMandate(cap), value)]
    /\ UNCHANGED <<keys, events, proposals, mirror, calls, now, tasks>>

NextScope ==
    \/ ret = Void /\ \E scope \in Scopes, a \in Strings : IsActionAllowed(scope, a) /\ UNCHANGED chainVars
    \/ ret = Void /\ \E scope \in Scopes, r \in Strings : IsResourceAllowed(scope, r) /\ UNCHANGED chainVars
    \/ ret = Void /\ \E scope \in Scopes, a \in Strings : IsActionInScope(scope, a) /\ UNCHANGED chainVars
    \/ ret = Void /\ \E cap \in Caps, v \in Values : IsWithinBudget(cap, v) /\ UNCHANGED chainVars

SpecScope == Init /\ [][NextScope]_vars

\* ----------------------------------------------------------- receipt chain
\* receipt ids and receipt data; NoData is a value canonicalize has no
\* form for (undefined)
ReceiptIds  == {1, 2, 3}
NoData      == 0
ReceiptData == {NoData, 1, 2}

\* base64url of a digest: a string, not the digest
base64urlEncode(digest) == HashMod + digest

\* canonical form of the chain data of a link (keys in order: index,
\* previousHash, receiptDataHash, receiptId, timestamp)
CanonChainData(receiptId, receiptData, previousHash, index, timestamp) ==
    <<index, previousHash, base64urlEncode(hashCanonical(<<receiptData>>)),
      receiptId, timestamp>>

\* the hash addReceipt computes and returns; previousHash is null on an
\* empty chain
receiptHashOf(chain, receiptId, receiptData, time) ==
    LET previousHash == IF Len(chain) > 0 THEN chain[Len(chain)].receiptHash ELSE NoHash
    IN  base64urlEncode(hashCanonical(
            CanonChainData(receiptId, receiptData, previousHash, Len(chain), time)))

\* faulty variant, on which the first link has to fail: the first link
\* keeps the null previousHash
addReceiptNullFirst(chain, receiptId, receiptData, time) ==
    LET receiptHash == receiptHashOf(chain, receiptId, receiptData, time)
    IN  Append(chain, [receiptHash |-> receiptHash, receiptId |-> receiptId,
                       previousHash |-> IF Len(chain) > 0
                                        THEN chain[Len(chain)].receiptHash
                                        ELSE NoHash,
                       timestamp |-> time, index |-> Len(chain)])

\* ReceiptChain.addReceipt for data that has a canonical form
addReceipt(chain, receiptId, receiptData, time) ==
    LET receiptHash == receiptHashOf(chain, receiptId, receiptData, time)
    IN  Append(chain, [receiptHash |-> receiptHash, receiptId |-> receiptId,
                       previousHash |-> IF Len(chain) > 0
                                        THEN chain[Len(chain)].receiptHash
                                        ELSE receiptHash,
                       timestamp |-> time, index |-> Len(chain)])

\* Array.prototype.findIndex on receiptId, counted from 1; 0 if none
findIndex(chain, receiptId) ==
    IF \E i \in DOMAIN chain : chain[i].receiptId = receiptId
    THEN CHOOSE i \in DOMAIN chain :
            /\ chain[i].receiptId = receiptId
            /\ \A j \in 1..(i - 1) : chain[j].receiptId # receiptId
    ELSE 0

\* ReceiptChain.verifyReceipt
chainVerifyReceipt(chain, receiptId, receiptData) ==
    LET i == findIndex(chain, receiptId)
    IN  IF i = 0 THEN FALSE
        ELSE IF receiptData = NoData THEN FALSE
        ELSE LET receipt      == chain[i]
                 previousHash == IF i > 1 THEN chain[i - 1].receiptHash
                                 ELSE receipt.receiptHash
                 expectedHash == base64urlEncode(hashCanonical(
                                     CanonChainData(receiptId, receiptData, previousHash,
                                                    i - 1, receipt.timestamp)))
             IN  IF expectedHash # receipt.receiptHash THEN FALSE
                 ELSE IF i > 1 /\ receipt.previousHash # chain[i - 1].receiptHash THEN FALSE
                 ELSE TRUE

\* ReceiptChain.verifyChain
receiptVerifyChain(chain) ==
    \A i \in 2..Len(chain) : chain[i].previousHash = chain[i - 1].receiptHash

\* ReceiptChain.getChainProof on a chain that is not empty
getChainProof(chain) ==
    [rootHash         |-> base64urlEncode(hashCanonical(
                              [i \in 1..Len(chain) |-> chain[i].receiptHash])),
     chainLength      |-> Len(chain),
     firstReceiptHash |-> chain[1].receiptHash,
     lastReceiptHash  |-> chain[Len(chain)].receiptHash]

\* chain.addReceipt(receiptId, receiptData)
AddReceipt(receiptId, receiptData) ==
    /\ Len(receiptChain) < MaxChain
    /\ IF receiptData = NoData
       THEN /\ UNCHANGED <<receiptChain, added>>
            /\ ret' = [op |-> "addReceipt", outcome |-> "CANONICALIZE_FAILED"]
       ELSE /\ receiptChain' = addReceipt(receiptChain, receiptId, receiptData, now)
            /\ added' = Append(added, [id |-> receiptId, data |-> receiptData])
            /\ ret' = [op |-> "addReceipt", outcome |-> "ok",
                       hash |-> receiptHashOf(receiptChain, receiptId, receiptData, now)]
    /\ UNCHANGED <<keys, events, proposals, mirror, calls, now, tasks, revocationChain, spentByMandate, issued>>

\* chain.verifyReceipt(receiptId, receiptData)
VerifyReceipt(receiptId, receiptData) ==
    /\ ret' = [op |-> "verifyReceipt", id |-> receiptId, data |-> receiptData,
               result |-> chainVerifyReceipt(receiptChain, receiptId, receiptData)]
    /\ UNCHANGED <<keys, events, proposals, mirror, calls, now, tasks, chainVars>>

\* chain.verifyChain()
ReceiptVerifyChain ==
    /\ ret' = [op |-> "receiptVerifyChain", result |-> receiptVerifyChain(receiptChain)]
    /\ UNCHANGED <<keys, events, proposals, mirror, calls, now, tasks, chainVars>>

\* chain.getChainProof()
GetChainProof ==
    /\ ret' = IF Len(receiptChain) = 0
              THEN [op |-> "getChainProof", outcome |-> "CHAIN_EMPTY"]
              ELSE [op |-> "getChainProof", outcome |-> "ok",
                    proof |-> getChainProof(receiptChain)]
    /\ UNCHANGED <<keys, events, proposals, mirror, calls, now, tasks, chainVars>>

NextReceipts ==
    \/ Tick /\ UNCHANGED tasks /\ UNCHANGED chainVars
    \/ \E id \in ReceiptIds, data \in ReceiptData : AddReceipt(id, data)
    \/ \E id \in ReceiptIds \cup {0}, data \in ReceiptData : VerifyReceipt(id, data)
    \/ ReceiptVerifyChain
    \/ GetChainProof

SpecReceipts == Init /\ [][NextReceipts]_vars

\* ------------------------------------------------------ revocation chain
\* RevocationChain of crypto-primitives: a list of links {hash, timestamp};
\* revocationChain = <<>> stands for a chain not yet constructed

\* the constructor's argument: absent (or the empty string), or a hash
NoInitial == 0
InitialHashes == {NoInitial, 11, 12}

\* outcomes of crypto.getRandomValues
Seeds == {1, 2}

\* constructor: one link, the given hash or the encoded hash of a random seed
newRevocationChain(initialHash, seed, time) ==
    IF initialHash # NoInitial
    THEN <<[hash |-> initialHash, timestamp |-> time]>>
    ELSE <<[hash |-> base64urlEncode(hashCanonical(<<seed>>)), timestamp |-> time]>>

\* canonical form of the revocation data (keys in order: action,
\* previousHash, timestamp), hashed and encoded
revocationHash(previousHash, timestamp) ==
    base64urlEncode(hashCanonical(<<Code("revoke"), previousHash, timestamp>>))

\* faulty variant, on which the depth has to fail: the new head takes the
\* place of the old one
revokeInPlace(chain, time) ==
    LET previous == chain[Len(chain)]
    IN  [chain EXCEPT ![Len(chain)] =
            [hash |-> revocationHash(previous.hash, time), timestamp |-> time]]

\* RevocationChain.revoke: the chain after the call; the new last hash is
\* returned
revoke(chain, time) ==
    LET previous == chain[Len(chain)]
    IN  Append(chain, [hash |-> revocationHash(previous.hash, time), timestamp |-> time])

\* RevocationChain.verifyChain
revocationVerifyChain(chain) ==
    \A i \in 2..Len(chain) :
        revocationHash(chain[i - 1].hash, chain[i].timestamp) = chain[i].hash

getCurrentHash(chain) == chain[Len(chain)].hash

getDepth(chain) == Len(chain)

isValid(chain, hash) == hash = getCurrentHash(chain)

\* findIndex gives the first link with the hash
wasRevoked(chain, hash) ==
    IF \A i \in 1..Len(chain) : chain[i].hash # hash THEN FALSE
    ELSE (CHOOSE i \in 1..Len(chain) :
            /\ chain[i].hash = hash
            /\ \A j \in 1..(i - 1) : chain[j].hash # hash) < Len(chain)

\* the hashes of the links of a chain
Heads(chain) == {chain[i].hash : i \in 1..Len(chain)}

\* new RevocationChain(initialHash)
NewRevocationChain(initialHash, seed) ==
    /\ revocationChain = <<>>
    /\ revocationChain' = newRevocationChain(initialHash, seed, now)
    /\ ret' = [op |-> "construct", hash |-> getCurrentHash(revocationChain')]
    /\ UNCHANGED <<keys, events, proposals, mirror, calls, now, tasks, receiptChain, added, spentByMandate, issued>>

\* chain.revoke(); added keeps the heads the calls returned
ChainRevoke ==
    /\ revocationChain # <<>>
    /\ Len(added) < MaxHeads
    /\ revocationChain' = revoke(revocationChain, now)
    /\ added' = Append(added, getCurrentHash(revocationChain'))
    /\ ret' = [op |-> "revoke", hash |-> getCurrentHash(revocationChain')]
    /\ UNCHANGED <<keys, events, proposals, mirror, calls, now, tasks, receiptChain, spentByMandate, issued>>

ChainVerify ==
    /\ revocationChain # <<>>
    /\ ret' = [op |-> "verifyChain", result |-> revocationVerifyChain(revocationChain)]
    /\ UNCHANGED <<keys, events, proposals, mirror, calls, now, tasks, chainVars>>

ChainGetDepth ==
    /\ revocationChain # <<>>
    /\ ret' = [op |-> "getDepth", result |-> getDepth(revocationChain)]
    /\ UNCHANGED <<keys, events, proposals, mirror, calls, now, tasks, chainVars>>

ChainIsValid(hash) ==
    /\ revocationChain # <<>>
    /\ ret' = [op |-> "isValid", hash |-> hash, result |-> isValid(revocationChain, hash)]
    /\ UNCHANGED <<keys, events, proposals, mirror, calls, now, tasks, chainVars>>

ChainWasRevoked(hash) ==
    /\ revocationChain # <<>>
    /\ ret' = [op |-> "wasRevoked", hash |-> hash, result |-> wasRevoked(revocationChain, hash)]
    /\ UNCHANGED <<keys, events, proposals, mirror, calls, now, tasks, chainVars>>

\* the hashes a holder may ask about: those of the chain, and a foreign one
AskedHashes == Heads(revocationChain) \cup (InitialHashes \ {NoInitial})

NextRevocation ==
    \/ Tick /\ UNCHANGED tasks /\ UNCHANGED chainVars
    \/ \E initialHash \in InitialHashes, seed \in Seeds : NewRevocationChain(initialHash, seed)
    \/ ChainRevoke
    \/ ChainVerify
    \/ ChainGetDepth
    \/ \E hash \in AskedHashes : ChainIsValid(hash)
    \/ \E hash \in AskedHashes : ChainWasRevoked(hash)

SpecRevocation == Init /\ [][NextRevocation]_vars

\* ------------------------------------------- revocation chain, persisted
\* RevocationChain.toJSON
toJSON(chain) ==
    [currentHash  |-> getCurrentHash(chain),
     previousHash |-> IF Len(chain) > 1 THEN chain[Len(chain) - 1].hash ELSE chain[1].hash,
     depth        |-> Len(chain),
     timestamp    |-> chain[Len(chain)].timestamp]

\* faulty variant, on which the previous head has to be lost: only the
\* current head is restored
fromJSONHeadOnly(data, time) ==
    <<[hash |-> data.currentHash, timestamp |-> data.timestamp]>>

\* RevocationChain.fromJSON, called at instant time (previousHash is a
\* hash, never the empty string)
fromJSON(data, time) ==
    LET chain == newRevocationChain(data.previousHash, 1, time)
    IN  IF data.currentHash # data.previousHash
        THEN Append(chain, [hash |-> data.currentHash, timestamp |-> data.timestamp])
        ELSE chain

\* chain = RevocationChain.fromJSON(chain.toJSON())
ChainRestore ==
    /\ revocationChain # <<>>
    /\ revocationChain' = fromJSON(toJSON(revocationChain), now)
    /\ ret' = [op |-> "fromJSON", hash |-> getCurrentHash(revocationChain'),
               before |-> revocationChain]
    /\ UNCHANGED <<keys, events, proposals, mirror, calls, now, tasks, receiptChain, added, spentByMandate, issued>>

\* the hashes a holder may ask a restored chain about: those of its links,
\* a foreign one, and the heads that revoke() returned before
HeldHashes == AskedHashes \cup {added[i] : i \in DOMAIN added}

NextRestore ==
    \/ Tick /\ UNCHANGED tasks /\ UNCHANGED chainVars
    \/ \E initialHash \in InitialHashes, seed \in Seeds : NewRevocationChain(initialHash, seed)
    \/ ChainRevoke
    \/ ChainRestore
    \/ \E hash \in HeldHashes : ChainIsValid(hash)
    \/ \E hash \in HeldHashes : ChainWasRevoked(hash)

SpecRestore == Init /\ [][NextRestore]_vars

\* ---------------------------------------------------------- mandate builder
\* MandateBuilder of adapter-mcp-fs: a signer and one revocation chain; a
\* mandate carries the chain's toJSON of the moment it was created.  The
\* intent and the signature play no part in revocation and are left out.

\* new MandateBuilder(): a chain from a random seed
NewBuilder(seed) ==
    /\ revocationChain = <<>>
    /\ revocationChain' = newRevocationChain(NoInitial, seed, now)
    /\ ret' = [op |-> "MandateBuilder"]
    /\ UNCHANGED <<keys, events, proposals, mirror, calls, now, tasks, receiptChain, added, spentByMandate, issued>>

\* builder.createMandate(params); revokedBefore counts the revocations made
\* before the mandate was created
BuilderCreateMandate ==
    /\ revocationChain # <<>>
    /\ Len(issued) < MaxIssued
    /\ LET mandate == [mandateId |-> Len(issued) + 1,
                       proofs |-> [revocationChain |-> toJSON(revocationChain)],
                       revokedBefore |-> Len(added)]
       IN  /\ issued' = Append(issued, mandate)
           /\ ret' = [op |-> "createMandate", mandateId |-> mandate.mandateId]
    /\ UNCHANGED <<keys, events, proposals, mirror, calls, now, tasks, receiptChain, added, revocationChain, spentByMandate>>

\* builder.revokeMandate(mandate)
BuilderRevokeMandate(i) ==
    /\ i \in DOMAIN issued
    /\ Len(added) < MaxHeads
    /\ revocationChain' = revoke(revocationChain, now)
    /\ added' = Append(added, getCurrentHash(revocationChain'))
    /\ ret' = [op |-> "revokeMandate", mandateId |-> issued[i].mandateId,
               newRevocationHash |-> getCurrentHash(revocationChain')]
    /\ UNCHANGED <<keys, events, proposals, mirror, calls, now, tasks, receiptChain, spentByMandate, issued>>

\* faulty variant, on which mandates of an earlier head have to stay valid:
\* the depth is compared, not the head
isMandateValidByDepth(chain, mandate) ==
    mandate.proofs.revocationChain.depth <= getDepth(chain)

\* MandateBuilder.isMandateValid
isMandateValid(chain, mandate) ==
    isValid(chain, mandate.proofs.revocationChain.currentHash)

\* builder.isMandateValid(mandate)
BuilderIsMandateValid(i) ==
    /\ i \in DOMAIN issued
    /\ ret' = [op |-> "isMandateValid", mandateId |-> issued[i].mandateId,
               result |-> isMandateValid(revocationChain, issued[i])]
    /\ UNCHANGED <<keys, events, proposals, mirror, calls, now, tasks, chainVars>>

NextBuilder ==
    \/ Tick /\ UNCHANGED tasks /\ UNCHANGED chainVars
    \/ \E seed \in Seeds : NewBuilder(seed)
    \/ BuilderCreateMandate
    \/ \E i \in 1..MaxIssued : BuilderRevokeMandate(i)
    \/ \E i \in 1..MaxIssued : BuilderIsMandateValid(i)

SpecBuilder == Init /\ [][NextBuilder]_vars

\* -------------------------------------------------------- wrapping adapter
\* SovereignAdapter over a keystore and an event log, with the default gate
\* and its own mirror; config.actorId is the adapter's id and no
\* actorOverride is given

\* tool calls: a name and an optional resource (the empty string and an
\* absent resource are both falsy)
NoResource  == <<>>
FileNotes   == <<"file", ":", "notes">>
SecretNotes == <<"secret", ":", "notes">>
ToolCalls   == [name : {ReadFile, FsDelete}, resource : {NoResource, FileNotes, SecretNotes}]

\* what config.failClosed and options.skipVerification can be
FailClosedSettings == {"undefined", "true", "false"}

\* what the wrapped executor does with a call
ExecutorOutcomes == {"ok", "throw"}

\* a mandate for invoke:read_file on file:*, signed by its issuer, and the
\* same mandate unsigned
Granted ==
    LET unsigned == [createMandate(3, "user:alice", AdapterId, <<>>,
                                   [not_before |-> Unset, not_after |-> Early], Early)
                       EXCEPT !.scope = [actions   |-> << <<"invoke", ":", "read_file">> >>,
                                         resources |-> << <<"file", ":", "*">> >>]]
    IN  signMandate(unsigned, AllKeys, "user:alice")
Unsigned == [Granted EXCEPT !.signature = BadSignature]
Offered  == {Granted, Unsigned}

\* DefaultTauGate.extractAction
extractAction(call) ==
    IF \E i \in 1..Len(call.name) : call.name[i] = ":" THEN call.name
    ELSE <<"invoke", ":">> \o call.name

\* DefaultTauGate.verify
gateVerify(call, m, ks, log, time) ==
    LET mandateResult == verifyMandate(m, ks, log, time)
        e1 == IF ~isActionAllowed(m, extractAction(call))
              THEN <<"Action not allowed">> ELSE <<>>
        e2 == IF call.resource # NoResource /\ ~isResourceAllowed(m, call.resource)
              THEN <<"Resource not allowed">> ELSE <<>>
    IN  IF ~mandateResult.valid
        THEN [allowed |-> FALSE,
              reason  |-> <<"Mandate verification failed">> \o mandateResult.errors]
        ELSE [allowed |-> (e1 \o e2) = <<>>, reason |-> e1 \o e2]

\* params of a call: at most one of the keys value, amount, cost, with a
\* number
NoParams == [key |-> "none", number |-> 0]
paramsOf(call) == IF "params" \in DOMAIN call THEN call.params ELSE NoParams

\* BudgetAwareTauGate.extractValue: params.value ?? params.amount ??
\* params.cost; Unset stands for undefined
extractValue(call) ==
    IF paramsOf(call).key \in {"value", "amount", "cost"}
    THEN paramsOf(call).number ELSE Unset

\* the value execute reads for recordSpending: params.value
recordedValue(call) ==
    IF paramsOf(call).key = "value" THEN paramsOf(call).number ELSE Unset

\* max_value of the mandate's scope; Unset if it has none
maxValueOf(m) == IF "max_value" \in DOMAIN m.scope THEN m.scope.max_value ELSE Unset

\* BudgetAwareTauGate.verify
budgetVerify(call, m, ks, log, time, spent) ==
    LET baseResult == gateVerify(call, m, ks, log, time)
        value      == extractValue(call)
    IN  IF ~baseResult.allowed THEN baseResult
        ELSE IF value # Unset /\ maxValueOf(m) # Unset
                  /\ ~isWithinBudget(m, spent[m.mandate_id] + value)
             THEN [allowed |-> FALSE, reason |-> <<"Budget exceeded">>]
             ELSE baseResult

\* BudgetAwareTauGate.recordSpending
recordSpending(spent, mandateId, value) ==
    [spent EXCEPT ![mandateId] = @ + value]

\* the map after step 7 of execute
afterExecute(spent, budgetAware, call, m) ==
    IF budgetAware /\ recordedValue(call) # Unset
    THEN recordSpending(spent, m.mandate_id, recordedValue(call))
    ELSE spent

\* canonical form of a tool call and of the executor's response to it
CanonCall(call) ==
    CodeList(call.name)
      \o (IF "params" \in DOMAIN call
          THEN <<Code(call.params.key), call.params.number>> ELSE <<>>)
      \o CodeList(call.resource)
CanonResponse(call) == <<Code("output")>> \o CodeList(call.name)

\* InMemoryMirror.captureRequest / captureResponse
mirrorCaptureRequest(entries, agentId, call, time) ==
    Append(entries, [id |-> Len(entries) + 1, agentId |-> agentId, prompt |-> call,
                     request_hash |-> hashCanonical(CanonCall(call)),
                     timestamp |-> time])

mirrorCaptureResponse(entries, mirrorRef, call) ==
    [entries EXCEPT ![mirrorRef] =
        [id |-> @.id, agentId |-> @.agentId, prompt |-> @.prompt,
         request_hash |-> @.request_hash, timestamp |-> @.timestamp,
         response_hash |-> hashCanonical(CanonResponse(call))]]

\* canonical form of the adapter's receipt without its signature field
\* (provider_metadata is empty)
CanonAdapterReceipt(r) ==
    CodeList(r.action)
      \o <<Code(r.actor), r.mandate_id, r.mirror_ref, r.receipt_id, r.request_hash,
           r.response_hash, r.timestamp>>

\* issueReceipt as the adapter calls it
issueAdapterReceipt(id, mandate_id, actor, call, mirror_ref, time, ks) ==
    LET receipt == [receipt_id |-> id, mandate_id |-> mandate_id, actor |-> actor,
                    action |-> call.name,
                    request_hash |-> hashCanonical(CanonCall(call)),
                    response_hash |-> hashCanonical(CanonResponse(call)),
                    timestamp |-> time, mirror_ref |-> mirror_ref,
                    signature |-> BadSignature]
    IN  [receipt EXCEPT !.signature = sign(CanonAdapterReceipt(receipt), ks[actor])]

\* what execute returned or threw
ExecuteRet(call, m, skip, failClosed, verification, executed, outcome) ==
    [op |-> "execute", call |-> call, mandate |-> m, skipVerification |-> skip,
     failClosed |-> failClosed, verification |-> verification,
     executed |-> executed, outcome |-> outcome]

\* the gate was not asked
NotVerified == [allowed |-> FALSE, reason |-> <<>>]

\* SovereignAdapter.execute(call, mandate, options) of an adapter configured
\* with failClosed, with the default or the budget-aware gate, on an
\* executor that answers or throws; at most limit calls are made
ExecuteUpTo(limit, budgetAware, call, m, skip, failClosed, executor) ==
    /\ Len(mirror) < limit
    /\ LET actorId      == AdapterId
           mirror1      == mirrorCaptureRequest(mirror, actorId, call, now)
           mirrorRef    == Len(mirror1)
           verification == IF skip THEN NotVerified
                           ELSE IF budgetAware
                           THEN budgetVerify(call, m, keys, events, now, spentByMandate)
                           ELSE gateVerify(call, m, keys, events, now)
           refused      == ~skip /\ ~verification.allowed
           log1         == IF refused /\ CanSign(keys, actorId)
                           THEN append(events, keys, "VERIFICATION_FAILED",
                                       [mandate_id |-> m.mandate_id, action |-> call.name,
                                        reason |-> verification.reason],
                                       actorId, now)
                           ELSE events
       IN  IF refused /\ ~CanSign(keys, actorId)
           THEN \* recordVerificationFailure throws in keystore.sign
                /\ mirror' = mirror1
                /\ ret' = ExecuteRet(call, m, skip, failClosed, verification, FALSE,
                                     "KEY_NOT_FOUND")
                /\ UNCHANGED <<keys, events, calls, spentByMandate>>
           ELSE IF refused /\ failClosed # "false"
           THEN \* SovereignVerificationError
                /\ mirror' = mirror1
                /\ events' = log1
                /\ ret' = ExecuteRet(call, m, skip, failClosed, verification, FALSE,
                                     "VERIFICATION_FAILED")
                /\ UNCHANGED <<keys, calls, spentByMandate>>
           ELSE \* this.executor.execute(call)
                /\ calls' = Append(calls, [tool |-> call.name, proposalId |-> 0,
                                           value |-> extractValue(call),
                                           answered |-> executor = "ok"])
                /\ IF executor = "throw"
                   THEN /\ mirror' = mirror1
                        /\ keys' = keys
                        /\ spentByMandate' = spentByMandate
                        /\ IF CanSign(keys, actorId)
                           THEN /\ events' = append(log1, keys, "EXECUTION_FAILED",
                                               [mandate_id |-> m.mandate_id,
                                                action |-> call.name,
                                                error |-> "executor error"],
                                               actorId, now)
                                /\ ret' = ExecuteRet(call, m, skip, failClosed,
                                               verification, TRUE, "EXECUTION_FAILED")
                           ELSE /\ events' = log1
                                /\ ret' = ExecuteRet(call, m, skip, failClosed,
                                               verification, TRUE, "KEY_NOT_FOUND")
                   ELSE LET ks1     == ensureUserKey(keys, actorId)
                            receipt == issueAdapterReceipt(Len(calls) + 1, m.mandate_id,
                                           actorId, call, mirrorRef, now, ks1)
                        IN  /\ mirror' = mirrorCaptureResponse(mirror1, mirrorRef, call)
                            /\ keys' = ks1
                            /\ spentByMandate' =
                                  afterExecute(spentByMandate, budgetAware, call, m)
                            /\ events' = append(log1, ks1, "RECEIPT_ISSUED",
                                           [receipt_id |-> receipt.receipt_id,
                                            mandate_id |-> m.mandate_id,
                                            action |-> call.name],
                                           actorId, now)
                            /\ ret' = ExecuteRet(call, m, skip, failClosed,
                                           verification, TRUE, "ok")
    /\ UNCHANGED <<proposals, now>>

\* execute of an adapter with the default gate
AdapterExecute(call, m, skip, failClosed, executor) ==
    ExecuteUpTo(MaxExecutions, FALSE, call, m, skip, failClosed, executor)

NextAdapter ==
    \/ Tick /\ UNCHANGED tasks /\ UNCHANGED chainVars
    \/ \E a \in Issuers \cup {AdapterId} : EnsureUserKey(a) /\ UNCHANGED tasks /\ UNCHANGED chainVars
    \/ \E a \in Revokers : RevokeMandate(Granted.mandate_id, a) /\ UNCHANGED tasks /\ UNCHANGED chainVars
    \/ \E call \in ToolCalls, m \in Offered, skip \in BOOLEAN, failClosed \in FailClosedSettings, executor \in ExecutorOutcomes :
          AdapterExecute(call, m, skip, failClosed, executor) /\ UNCHANGED tasks /\ UNCHANGED <<receiptChain, added, revocationChain, issued>>

SpecAdapter == Init /\ [][NextAdapter]_vars

\* ------------------------------------------------------ budget-aware gate
\* createSovereignAdapter(executor, actorId, {budgetAware: true}): the
\* configuration is {actorId}, no options are passed to execute

\* the amounts a call can carry
Amounts == {1, 2}

BudgetParams ==
    {NoParams} \cup [key : {"value", "amount", "cost"}, number : Amounts]

SendMoney(params) ==
    [name |-> <<"send_money">>, params |-> params, resource |-> NoResource]

\* a signed mandate for every invoke: action, capped at MaxBudget
Budgeted ==
    LET unsigned == [createMandate(4, "user:alice", AdapterId, <<>>,
                                   [not_before |-> Unset, not_after |-> Unset], Early)
                       EXCEPT !.scope = [actions   |-> << <<"invoke", ":", "*">> >>,
                                         resources |-> << Star >>,
                                         max_value |-> MaxBudget]]
    IN  signMandate(unsigned, AllKeys, "user:alice")

\* execute of the budget-aware adapter
BudgetExecute(params, executor) ==
    ExecuteUpTo(MaxSpends, TRUE, SendMoney(params), Budgeted, FALSE, "undefined", executor)

NextBudget ==
    \/ \E a \in Issuers \cup {AdapterId} : EnsureUserKey(a) /\ UNCHANGED tasks /\ UNCHANGED chainVars
    \/ \E params \in BudgetParams, executor \in ExecutorOutcomes :
          BudgetExecute(params, executor) /\ UNCHANGED tasks /\ UNCHANGED <<receiptChain, added, revocationChain, issued>>

SpecBudget == Init /\ [][NextBudget]_vars

\* ------------------------------------------- overlapping budgeted executes
\* execute is an async function: a call runs to its next await, where calls
\* started meanwhile take their turn.  The steps below are the stretches of
\* one call that read or write the spent counter or invoke the executor:
\* up to the gate's answer, the executor's run, and the rest up to
\* recordSpending.

\* a task slot holding a call of execute
ExecTask(pc, call, mirrorRef) ==
    [op |-> "execute", pc |-> pc, call |-> call, mirrorRef |-> mirrorRef]

\* execute(call, Budgeted) up to the gate's answer
CallExecute(t, params) ==
    /\ tasks[t] = Idle
    /\ Len(mirror) < MaxSpends
    /\ LET call         == SendMoney(params)
           actorId      == AdapterId
           mirror1      == mirrorCaptureRequest(mirror, actorId, call, now)
           verification == budgetVerify(call, Budgeted, keys, events, now, spentByMandate)
       IN  /\ mirror' = mirror1
           /\ IF verification.allowed
              THEN /\ tasks' = [tasks EXCEPT ![t] = ExecTask("verified", call, Len(mirror1))]
                   /\ ret' = Void
                   /\ events' = events
              ELSE /\ tasks' = tasks
                   /\ IF CanSign(keys, actorId)
                      THEN /\ events' = append(events, keys, "VERIFICATION_FAILED",
                                          [mandate_id |-> Budgeted.mandate_id,
                                           action |-> call.name,
                                           reason |-> verification.reason],
                                          actorId, now)
                           /\ ret' = ExecuteRet(call, Budgeted, FALSE, "undefined",
                                          verification, FALSE, "VERIFICATION_FAILED")
                      ELSE /\ events' = events
                           /\ ret' = ExecuteRet(call, Budgeted, FALSE, "undefined",
                                          verification, FALSE, "KEY_NOT_FOUND")
    /\ UNCHANGED <<keys, proposals, calls, now, spentByMandate>>

\* the executor runs; if it throws, the failure is recorded and the call ends
ResumeExecutor(t, executor) ==
    /\ tasks[t].op = "execute" /\ tasks[t].pc = "verified"
    /\ LET call == tasks[t].call
       IN  /\ calls' = Append(calls, [tool |-> call.name, proposalId |-> 0,
                                      value |-> extractValue(call),
                                      answered |-> executor = "ok"])
           /\ IF executor = "ok"
              THEN /\ tasks' = [tasks EXCEPT ![t].pc = "executed"]
                   /\ ret' = Void
                   /\ events' = events
              ELSE /\ tasks' = [tasks EXCEPT ![t] = Idle]
                   /\ IF CanSign(keys, AdapterId)
                      THEN /\ events' = append(events, keys, "EXECUTION_FAILED",
                                          [mandate_id |-> Budgeted.mandate_id,
                                           action |-> call.name,
                                           error |-> "executor error"],
                                          AdapterId, now)
                           /\ ret' = ExecuteRet(call, Budgeted, FALSE, "undefined",
                                          [allowed |-> TRUE, reason |-> <<>>], TRUE,
                                          "EXECUTION_FAILED")
                      ELSE /\ events' = events
                           /\ ret' = ExecuteRet(call, Budgeted, FALSE, "undefined",
                                          [allowed |-> TRUE, reason |-> <<>>], TRUE,
                                          "KEY_NOT_FOUND")
    /\ UNCHANGED <<keys, proposals, mirror, now, spentByMandate>>

\* the response is captured, the receipt issued and logged, the spending
\* recorded
ResumeExecuted(t) ==
    /\ tasks[t].op = "execute" /\ tasks[t].pc = "executed"
    /\ LET call    == tasks[t].call
           ks1     == ensureUserKey(keys, AdapterId)
           receipt == issueAdapterReceipt(Len(events) + 1, Budgeted.mandate_id,
                          AdapterId, call, tasks[t].mirrorRef, now, ks1)
       IN  /\ mirror' = mirrorCaptureResponse(mirror, tasks[t].mirrorRef, call)
           /\ keys' = ks1
           /\ events' = append(events, ks1, "RECEIPT_ISSUED",
                          [receipt_id |-> receipt.receipt_id,
                           mandate_id |-> Budgeted.mandate_id, action |-> call.name],
                          AdapterId, now)
           /\ spentByMandate' = afterExecute(spentByMandate, TRUE, call, Budgeted)
           /\ tasks' = [tasks EXCEPT ![t] = Idle]
           /\ ret' = ExecuteRet(call, Budgeted, FALSE, "undefined",
                          [allowed |-> TRUE, reason |-> <<>>], TRUE, "ok")
    /\ UNCHANGED <<proposals, calls, now>>

\* calls carrying params.value
ValueParams == [key : {"value"}, number : Amounts]

NextBudgetAsync ==
    \/ \E a \in Issuers \cup {AdapterId} : EnsureUserKey(a) /\ UNCHANGED tasks /\ UNCHANGED chainVars
    \/ \E t \in 1..MaxTasks, params \in ValueParams : CallExecute(t, params) /\ UNCHANGED <<receiptChain, added, revocationChain, issued>>
    \/ \E t \in 1..MaxTasks, executor \in ExecutorOutcomes : ResumeExecutor(t, executor) /\ UNCHANGED <<receiptChain, added, revocationChain, issued>>
    \/ \E t \in 1..MaxTasks : ResumeExecuted(t) /\ UNCHANGED <<receiptChain, added, revocationChain, issued>>

SpecBudgetAsync == Init /\ [][NextBudgetAsync]_vars

\* ------------------------------------------------- who can revoke, and undo
\* the kernel with revokeMandate called in the name of any actor, and with
\* EventLog.import of sequences made outside the log

\* a MANDATE_REVOKE event nobody signed
Forged(log, mandateId, time) ==
    [id |-> Len(log) + 1, type |-> "MANDATE_REVOKE", timestamp |-> time,
     payload |-> [mandate_id |-> mandateId, reason |-> "policy_change",
                  revoked_by |-> "user:alice", revoked_at |-> time],
     signer |-> "user:alice", prev_hash |-> NoHash, signature |-> BadSignature]

\* eventLog.import(evts) of the exported sequence with a forged revocation
\* added
ImportForged(mandateId) ==
    /\ Len(events) < MaxEvents
    /\ events' = import(Append(export(events), Forged(events, mandateId, now)))
    /\ ret' = [op |-> "import", kind |-> "forged", outcome |-> "ok"]
    /\ UNCHANGED <<keys, proposals, mirror, calls, now>>

\* eventLog.import([]) on a log that holds events
ImportEmpty ==
    /\ events # <<>>
    /\ events' = import(<<>>)
    /\ ret' = [op |-> "import", kind |-> "empty", outcome |-> "ok",
               revokedBefore |-> {id \in MandateIds : isMandateRevoked(id, events)}]
    /\ UNCHANGED <<keys, proposals, mirror, calls, now>>

NextAuthority ==
    \/ \E a \in Issuers \cup {AdapterId} : EnsureUserKey(a) /\ UNCHANGED tasks /\ UNCHANGED chainVars
    \/ \E a \in Actors : RevokeMandate(Mandate1.mandate_id, a) /\ UNCHANGED tasks /\ UNCHANGED chainVars
    \/ \E a \in Agents : Propose(ReadFile, a) /\ UNCHANGED tasks /\ UNCHANGED chainVars
    \/ \E p \in 1..(Len(proposals) + 1), m \in Shown : Commit(p, m) /\ UNCHANGED tasks /\ UNCHANGED chainVars
    \/ ImportForged(Mandate1.mandate_id) /\ UNCHANGED tasks /\ UNCHANGED chainVars

SpecAuthority == Init /\ [][NextAuthority]_vars

\* the kernel operations that append to the log, and an import that
\* replaces the log's sequence
NextUndo ==
    \/ \E a \in Issuers \cup {AdapterId} : EnsureUserKey(a) /\ UNCHANGED tasks /\ UNCHANGED chainVars
    \/ \E id \in MandateIds, a \in Revokers : RevokeMandate(id, a) /\ UNCHANGED tasks /\ UNCHANGED chainVars
    \/ \E a \in Agents : Propose(ReadFile, a) /\ UNCHANGED tasks /\ UNCHANGED chainVars
    \/ \E p \in 1..(Len(proposals) + 1), m \in Shown : Commit(p, m) /\ UNCHANGED tasks /\ UNCHANGED chainVars
    \/ ImportEmpty /\ UNCHANGED tasks /\ UNCHANGED chainVars

SpecUndo == Init /\ [][NextUndo]_vars

\* ------------------------------------------------------ the log as a store
\* the keystores a stored sequence is verified under
Keystores == {keys, EmptyKeystore, OtherKeystore}

\* event i of the log carries the hash of the event stored before it
LinkOk(log, i) ==
    IF i = 1 THEN TRUE
    ELSE log[i].prev_hash = hashCanonical(CanonSignedEvent(log[i - 1]))

\* the signature of event i verifies under its signer's public key in ks
SigOk(log, ks, i) ==
    IF ks[log[i].signer] = NoKey THEN FALSE
    ELSE log[i].signature = sign(CanonEvent(log[i]), ks[log[i].signer])

C19_RoundTrip ==
    [][ret'.op = "rehydrate"
         => /\ events' = events
            /\ \A ks \in Keystores :
                 /\ verifyChain(events', ks).valid = verifyChain(events, ks).valid
                 /\ Len(verifyChain(events', ks).errors) = Len(verifyChain(events, ks).errors)]_vars

\* a log that does not verify went through export and import
C19_BrokenLogRehydrated ==
    /\ ret.op = "rehydrate"
    /\ Len(events) >= 2
    /\ ~verifyChain(events, keys).valid
    /\ \E i \in DOMAIN events : ~LinkOk(events, i)

\* -------------------------------------------------------- mandate lifecycle
\* the mandates signMandate returned to a caller
Signed == {tasks[t].mandate : t \in {u \in 1..MaxTasks : tasks[u].pc \in {"signed", "verified"}}}

\* C20 as stated: for every mandate m produced by signMandate,
\* verifyMandate(m, keystore, eventLog) returns valid iff the current time is
\* inside m's validity window and the log holds no MANDATE_REVOKE event for
\* m.mandate_id.
C20_SignedValidIffWindowAndUnrevoked ==
    \A m \in Signed :
        verifyMandate(m, keys, events, now).valid <=> InWindow(m) /\ Unrevoked(m)

\* C20: for every mandate m that signMandate signed with the key of m's
\* issuer, verifyMandate(m, keystore, eventLog) with that keystore returns
\* valid iff the current time is inside m's validity window (each end only
\* if set, ends included) and the log holds no MANDATE_REVOKE event for
\* m.mandate_id.
C20_IssuerSignedValidIffWindowAndUnrevoked ==
    \A m \in Signed :
        SignedByIssuer(m)
          => (verifyMandate(m, keys, events, now).valid <=> InWindow(m) /\ Unrevoked(m))

\* a mandate signed with its issuer's key was verified inside its window
\* after it was revoked
C20_RevokedInsideWindow ==
    \E t \in 1..MaxTasks :
        /\ tasks[t].pc = "verified"
        /\ SignedByIssuer(tasks[t].mandate)
        /\ tasks[t].mandate.validity.not_before = Early
        /\ tasks[t].mandate.validity.not_after = Late
        /\ InWindow(tasks[t].mandate)
        /\ tasks[t].check = [valid |-> FALSE, errors |-> <<"revoked">>]
        /\ tasks[t].check = verifyMandate(tasks[t].mandate, keys, events, now)

\* the checks of verifyMandate, in the order it makes them, and whether a
\* mandate fails them now
MandateChecks == <<"not yet valid", "expired", "revoked", "signature">>

Fails(m, c) ==
    CASE c = "not yet valid" -> m.validity.not_before # Unset /\ m.validity.not_before > now
      [] c = "expired"       -> m.validity.not_after # Unset /\ m.validity.not_after < now
      [] c = "revoked"       -> ~Unrevoked(m)
      [] c = "signature"     -> ~SignedByIssuer(m)

\* the check an error message belongs to
CheckOf(error) == IF error \in {"No public key", "Invalid signature"} THEN "signature" ELSE error

\* C21: verifyMandate accumulates errors without short-circuiting, in the
\* order not-yet-valid, expired, revoked, signature (or missing issuer key):
\* every failing check contributes exactly one error of its own whatever the
\* earlier checks found, a missing issuer key is reported as such, and the
\* result is valid iff the list of errors is empty.
C21_ErrorsAccumulateInOrder ==
    \A m \in Signed :
        LET r      == verifyMandate(m, keys, events, now)
            failed == {i \in DOMAIN MandateChecks : Fails(m, MandateChecks[i])}
        IN  /\ Len(r.errors) = Cardinality(failed)
            /\ \A i \in failed : \E k \in DOMAIN r.errors : CheckOf(r.errors[k]) = MandateChecks[i]
            /\ \A k, l \in DOMAIN r.errors :
                 k < l => \E i, j \in failed :
                            /\ i < j
                            /\ CheckOf(r.errors[k]) = MandateChecks[i]
                            /\ CheckOf(r.errors[l]) = MandateChecks[j]
            /\ \A k \in DOMAIN r.errors :
                 r.errors[k] = "No public key" <=>
                     (CheckOf(r.errors[k]) = "signature" /\ keys[m.issuer] = NoKey)
            /\ r.valid <=> r.errors = <<>>

\* a mandate that fails all four checks was verified
C21_AllFourErrors ==
    /\ tasks[Caller].pc = "verified"
    /\ tasks[Caller].check =
         [valid |-> FALSE,
          errors |-> <<"not yet valid", "expired", "revoked", "Invalid signature">>]
    /\ tasks[Caller].check = verifyMandate(tasks[Caller].mandate, keys, events, now)

\* ------------------------------------------------------------- revocation
\* mandate ids asked about: those issued and one never issued
AskedIds == MandateIds \cup {0}

\* the log holds a MANDATE_REVOKE event whose payload names the mandate
HoldsRevocation(log, id) ==
    Cardinality({i \in DOMAIN log :
                    log[i].type = "MANDATE_REVOKE" /\ log[i].payload.mandate_id = id}) >= 1

\* C22: isMandateRevoked(id) is true iff the log contains at least one
\* MANDATE_REVOKE event whose payload.mandate_id equals id; a revokeMandate
\* that returns appended exactly one such event, signed by revoked_by, and
\* left the mandates held by callers as they were; a repeated revocation
\* appends a further event and changes no answer; a revokeMandate that
\* fails on a missing key appends nothing.
C22_RevocationLookup ==
    [][/\ \A id \in AskedIds : isMandateRevoked(id, events) <=> HoldsRevocation(events, id)
       /\ \A id \in AskedIds : isMandateRevoked(id, events') <=> HoldsRevocation(events', id)
       /\ (ret'.op = "revokeMandate" /\ ret'.outcome = "ok" /\ events' # events)
            => /\ Len(events') = Len(events) + 1
               /\ IsPrefix(events, events')
               /\ LET evt == events'[Len(events')]
                  IN  /\ evt.type = "MANDATE_REVOKE"
                      /\ evt.payload.mandate_id \in MandateIds
                      /\ evt.signer = evt.payload.revoked_by
                      /\ SigOk(events', keys, Len(events'))
                      /\ \A id \in AskedIds :
                           isMandateRevoked(id, events')
                             <=> (id = evt.payload.mandate_id \/ isMandateRevoked(id, events))
               /\ tasks' = tasks
       /\ (ret'.op = "revokeMandate" /\ ret'.outcome = "KEY_NOT_FOUND")
            => events' = events]_vars

\* the mandate a caller holds was revoked twice
C22_RevokedTwice ==
    /\ ret.op = "revokeMandate"
    /\ ret.outcome = "ok"
    /\ tasks[Caller].pc \in {"signed", "verified"}
    /\ Cardinality({i \in DOMAIN events :
                       events[i].payload.mandate_id = tasks[Caller].mandate.mandate_id}) = 2
    /\ isMandateRevoked(tasks[Caller].mandate.mandate_id, events)

\* ------------------------------------------------------------ scope checks
ScopeChecks == {"isActionAllowed", "isResourceAllowed", "isActionInScope"}

\* C23: isActionAllowed(m, a), isResourceAllowed likewise and the adapter's
\* scope gate are true iff some pattern of the scope list is `*`, or equals
\* a, or has the form prefix:* with a starting with prefix: ; `*` matches
\* the empty string, a:* matches a: and a:s but not a, and a:* does not
\* match as: (as payment:* does not match payments:x).
C23_ScopeMatching ==
    /\ ret.op \in ScopeChecks
         => (ret.result <=> \E i \in DOMAIN ret.scope : Matches(ret.scope[i], ret.value))
    /\ isActionAllowed(ScopeMandate(<<Star>>, <<>>), <<>>)
    /\ isActionAllowed(ScopeMandate(<<<<"a", ":", "*">>>>, <<>>), <<"a", ":">>)
    /\ isActionAllowed(ScopeMandate(<<<<"a", ":", "*">>>>, <<>>), <<"a", ":", "s">>)
    /\ ~isActionAllowed(ScopeMandate(<<<<"a", ":", "*">>>>, <<>>), <<"a">>)
    /\ ~isActionAllowed(ScopeMandate(<<<<"a", ":", "*">>>>, <<>>), <<"a", "s", ":">>)
    /\ ~isResourceAllowed(ScopeMandate(<<>>, <<<<"a", ":", "*">>>>), <<"a", "s", ":">>)
    /\ ~isActionInScope(<<"a", "s", ":">>, ScopeMandate(<<<<"a", ":", "*">>>>, <<>>))

\* a prefix pattern was asked about a string that has the prefix without
\* the separator, and refused it
C23_PrefixWithoutSeparatorRefused ==
    /\ ret.op = "isActionAllowed"
    /\ ret.scope = <<<<"a", ":", "*">>>>
    /\ ret.value = <<"a", "s", ":">>
    /\ ret.result = FALSE

\* C24: isWithinBudget(m, v) is true iff m.scope.max_value is unset or
\* v <= max_value: true at v = max_value, false at max_value + 1, and with
\* max_value = 0 false for every positive v.
C24_WithinBudget ==
    /\ ret.op = "isWithinBudget"
         => (ret.result <=> (ret.cap = Unset \/ ret.value <= ret.cap))
    /\ \A cap \in 0..MaxValue :
         /\ isWithinBudget(BudgetMandate(cap), cap)
         /\ ~isWithinBudget(BudgetMandate(cap), cap + 1)
    /\ \A v \in 1..(MaxValue + 1) : ~isWithinBudget(BudgetMandate(0), v)
    /\ \A v \in Values : isWithinBudget(BudgetMandate(Unset), v)

\* a positive value was asked about under a cap of zero, and refused
C24_ZeroCapRefuses ==
    /\ ret.op = "isWithinBudget"
    /\ ret.cap = 0
    /\ ret.value = 1
    /\ ret.result = FALSE

\* ----------------------------------------------------------- receipt chain
\* C25: after any sequence of addReceipt calls, link i has index i, link
\* 0's previousHash equals its own receiptHash, every later link's
\* previousHash equals its predecessor's receiptHash, addReceipt returned
\* the new link's receiptHash, and verifyChain() returns true.
C25_ReceiptLinks ==
    /\ \A i \in DOMAIN receiptChain :
         /\ receiptChain[i].index = i - 1
         /\ receiptChain[i].previousHash =
              (IF i = 1 THEN receiptChain[1].receiptHash
               ELSE receiptChain[i - 1].receiptHash)
    /\ (ret.op = "addReceipt" /\ ret.outcome = "ok")
         => ret.hash = receiptChain[Len(receiptChain)].receiptHash
    /\ receiptVerifyChain(receiptChain)
    /\ Len(receiptChain) = Len(added)

\* verifyChain was called on a chain of three links
C25_ThreeLinksVerified ==
    /\ Len(receiptChain) = 3
    /\ ret.op = "receiptVerifyChain"
    /\ ret.result = TRUE

\* the receipts were added under distinct ids
DistinctIds == \A k, l \in DOMAIN added : added[k].id = added[l].id => k = l

\* C26: for every receipt added with addReceipt(id, data) under distinct
\* ids, at every position of the chain including the first,
\* verifyReceipt(id, data) returns true, while verifyReceipt(id, data') with
\* different data and verifyReceipt of an unknown id return false.
C26_AddedReceiptsVerify ==
    DistinctIds =>
        /\ \A k \in DOMAIN added :
             /\ chainVerifyReceipt(receiptChain, added[k].id, added[k].data)
             /\ \A d \in ReceiptData \ {added[k].data} :
                  ~chainVerifyReceipt(receiptChain, added[k].id, d)
        /\ \A id \in (ReceiptIds \cup {0}) \ {added[k].id : k \in DOMAIN added} :
             \A d \in ReceiptData : ~chainVerifyReceipt(receiptChain, id, d)

\* the first receipt of a chain was verified with the data it was added
\* with, and refused
C26_FirstReceiptRefused ==
    /\ DistinctIds
    /\ Len(added) >= 2
    /\ ret.op = "verifyReceipt"
    /\ ret.id = added[1].id
    /\ ret.data = added[1].data
    /\ ret.result = FALSE
    /\ chainVerifyReceipt(receiptChain, added[2].id, added[2].data)

\* the chain a fresh ReceiptChain holds after the inputs were added to
\* it at the given instants
RECURSIVE Replay(_, _, _)
Replay(inputs, times, chain) ==
    IF Len(chain) = Len(inputs) THEN chain
    ELSE LET k == Len(chain) + 1
         IN  Replay(inputs, times, addReceipt(chain, inputs[k].id, inputs[k].data, times[k]))

\* the instants of n calls made one after the other
ReplayTimes(n) ==
    {times \in [1..n -> {Early, Late}] : \A k \in 1..(n - 1) : times[k] <= times[k + 1]}

\* C27: for every receipt chain of length n >= 1, getChainProof returns
\* chainLength n, the first and last link hashes, and rootHash equal to the
\* hash of the concatenation of all link hashes in order; replaying the same
\* sequence of (receipt_id, receipt_data) inputs into a fresh chain
\* reproduces the same rootHash; on an empty chain getChainProof fails.
C27_ChainProof ==
    /\ ret.op = "getChainProof"
         => (ret.outcome = "CHAIN_EMPTY" <=> Len(receiptChain) = 0)
    /\ Len(receiptChain) >= 1
         => LET n     == Len(receiptChain)
                proof == getChainProof(receiptChain)
            IN  /\ proof.chainLength = n
                /\ proof.firstReceiptHash = receiptChain[1].receiptHash
                /\ proof.lastReceiptHash = receiptChain[n].receiptHash
                /\ proof.rootHash = base64urlEncode(hashCanonical(
                                        [i \in 1..n |-> receiptChain[i].receiptHash]))
                /\ \A times \in ReplayTimes(n) :
                     getChainProof(Replay(added, times, <<>>)).rootHash = proof.rootHash

\* a proof was taken of a chain whose inputs, replayed at the same instants,
\* give the same root hash, and replayed at later instants give another
C27_ReplayedLater ==
    /\ ret.op = "getChainProof"
    /\ ret.outcome = "ok"
    /\ Len(receiptChain) >= 2
    /\ getChainProof(Replay(added, [k \in DOMAIN receiptChain |-> receiptChain[k].timestamp],
                            <<>>)).rootHash = ret.proof.rootHash
    /\ \E times \in ReplayTimes(Len(receiptChain)) :
         getChainProof(Replay(added, times, <<>>)).rootHash # ret.proof.rootHash
\* C28: revocation-chain head invariant. After any sequence of revoke()
\* calls verifyChain() is true, getDepth() is the number of revocations plus
\* one, isValid(h) holds of the current head and of no other hash, and every
\* earlier head h has wasRevoked(h) and not isValid(h).
C28_HeadInvariant ==
    revocationChain # <<>> =>
        /\ revocationVerifyChain(revocationChain)
        /\ getDepth(revocationChain) = Len(added) + 1
        /\ \A h \in AskedHashes :
              isValid(revocationChain, h) <=> h = getCurrentHash(revocationChain)
        /\ \A i \in 1..(Len(revocationChain) - 1) :
              /\ wasRevoked(revocationChain, revocationChain[i].hash)
              /\ ~isValid(revocationChain, revocationChain[i].hash)
        /\ \A k \in 1..Len(added) : revocationChain[k + 1].hash = added[k]
        /\ (ret.op = "isValid" /\ ret.result) => ret.hash = getCurrentHash(revocationChain)

\* three revocations were published and the holder was told that the first
\* head is revoked
C28_ThreeHeadsRevoked ==
    /\ Len(added) = 3
    /\ ret = [op |-> "wasRevoked", hash |-> revocationChain[1].hash, result |-> TRUE]
\* C29: propose verifies nothing and executes nothing: for any action and
\* agent it appends exactly one SUGGESTION event signed by the agent, whose
\* key it creates if absent, records one new proposal with a fresh id and
\* status pending, calls no tool and leaves the existing proposals as they
\* were.
C29_ProposeFrame ==
    [][\A t \in Tools, a \in Proposers :
         ProposeUpTo(MaxProposed, t, a) =>
            LET n == Len(events')
                k == Len(proposals')
            IN  /\ n = Len(events) + 1
                /\ SubSeq(events', 1, Len(events)) = events
                /\ events'[n].type = "SUGGESTION"
                /\ events'[n].signer = a
                /\ events'[n].payload.agentId = a
                /\ events'[n].payload.proposedAction = t
                /\ SigOk(events', keys', n)
                /\ keys'[a] # NoKey
                /\ \A b \in Actors : (b # a \/ keys[b] # NoKey) => keys'[b] = keys[b]
                /\ k = Len(proposals) + 1
                /\ \A p \in DOMAIN proposals :
                      /\ proposals'[p] = proposals[p]
                      /\ proposals'[p].id # proposals'[k].id
                /\ proposals'[k].status = "pending"
                /\ proposals'[k].action.tool = t
                /\ proposals'[k].eventId = events'[n].id
                /\ ret'.op = "propose" /\ ret'.outcome = "ok" /\ ret'.pid = proposals'[k].id
                /\ calls' = calls]_vars

\* a second proposal was made, in the name of a user, after the first was
\* committed; nothing was called for it
C29_ProposedAfterCommit ==
    /\ Len(proposals) = 2
    /\ ret.op = "propose" /\ ret.pid = proposals[2].id
    /\ proposals[1].status = "committed"
    /\ proposals[2].status = "pending"
    /\ events[Len(events)].type = "SUGGESTION"
    /\ events[Len(events)].signer \in Issuers
    /\ Len(calls) = 1
\* C30: the wrapping adapter is fail-closed: whatever the configuration and
\* the options, execute invokes the executor only for a call that the gate
\* allowed under the presented mandate.
C30_ExecutorOnlyWhenAllowed ==
    [][calls' # calls =>
         gateVerify(ret'.call, ret'.mandate, keys, events, now).allowed]_vars

\* configured with failClosed: false, the adapter asked the gate, was
\* refused, recorded the refusal and ran the executor all the same
C30_ExecutedAfterRefusal ==
    /\ ret.op = "execute"
    /\ ~ret.skipVerification
    /\ ret.failClosed = "false"
    /\ ~ret.verification.allowed
    /\ ret.executed /\ ret.outcome = "ok"
    /\ Len(calls) = 1
    /\ \E i \in DOMAIN events : events[i].type = "VERIFICATION_FAILED"
    /\ events[Len(events)].type = "RECEIPT_ISSUED"
\* the sum of the values carried by the calls the executor answered
RECURSIVE SumAnswered(_)
SumAnswered(cs) ==
    IF cs = <<>> THEN 0
    ELSE (IF Head(cs).answered /\ Head(cs).value # Unset THEN Head(cs).value ELSE 0)
           + SumAnswered(Tail(cs))

\* C31: budget is tracked and enforced: under the budget-aware gate and a
\* mandate with max_value set, the values (params.value, params.amount or
\* params.cost) of the executed calls sum to at most max_value.
C31_BudgetEnforced == SumAnswered(calls) <= MaxBudget

\* two calls carrying params.amount were executed and answered, none was
\* recorded as spent, and their amounts exceed the mandate's max_value
C31_AmountsNeverRecorded ==
    /\ ret.op = "execute" /\ ret.outcome = "ok"
    /\ Len(calls) = 2
    /\ \A i \in 1..2 : calls[i].answered /\ calls[i].value = 2
    /\ \A i \in 1..2 : mirror[i].prompt.params.key = "amount"
    /\ spentByMandate[Budgeted.mandate_id] = 0
    /\ SumAnswered(calls) > MaxBudget

\* C32: overlapping executes against one mandate serialize the budget check
\* and update: in every interleaving of execute calls carrying params.value
\* the spent counter and the total value of the executed calls stay at or
\* below max_value.
C32_BudgetSerialized ==
    /\ spentByMandate[Budgeted.mandate_id] <= MaxBudget
    /\ SumAnswered(calls) <= MaxBudget

\* two calls of value 2 were both verified against a counter of 0 before
\* either was recorded; both ran and the counter stands at 4
C32_BothVerifiedBeforeRecorded ==
    /\ Len(calls) = 2
    /\ \A i \in 1..2 : calls[i].answered /\ calls[i].value = 2
    /\ spentByMandate[Budgeted.mandate_id] = 4
    /\ \A t \in 1..MaxTasks : tasks[t] = Idle
    /\ \A i \in DOMAIN events : events[i].type = "RECEIPT_ISSUED"

\* C33: when the executor throws, exactly one EXECUTION_FAILED event signed
\* by the adapter's actor is appended, the executor's error is the one the
\* caller gets, no RECEIPT_ISSUED event is appended and the spent counter
\* is unchanged.
C33_ExecutorThrowRecorded ==
    [][( /\ calls' # calls
         /\ ~calls'[Len(calls')].answered )
       => /\ Len(events') = Len(events) + 1
          /\ SubSeq(events', 1, Len(events)) = events
          /\ events'[Len(events')].type = "EXECUTION_FAILED"
          /\ events'[Len(events')].signer = AdapterId
          /\ ret'.outcome = "EXECUTION_FAILED"
          /\ spentByMandate' = spentByMandate]_vars

\* the executor threw in the first call of an adapter that holds no key:
\* nothing was appended and the caller got the keystore's error
C33_ThrowWithoutKey ==
    /\ ret.op = "execute" /\ ret.executed
    /\ ret.verification.allowed
    /\ ret.outcome = "KEY_NOT_FOUND"
    /\ Len(calls) = 1 /\ ~calls[1].answered
    /\ keys[AdapterId] = NoKey
    /\ events = <<>>
\* the COMMITTED events naming proposal p
CommittedFor(p) == {i \in DOMAIN events : Names(i, p, "COMMITTED")}

\* C34: a proposal is executed at most once: over any sequence of commit
\* calls made one after the other on one proposal, also after a commit whose
\* tool call threw, the executor is invoked at most once for it and at most
\* one COMMITTED event names it.
C34_ExecutedAtMostOnce ==
    \A p \in DOMAIN proposals :
        /\ Cardinality(CallsFor(p)) <= 1
        /\ Cardinality(CommittedFor(p)) <= 1

\* a proposal whose tool call threw stayed pending, was committed again and
\* its tool called again: two calls, two COMMITTED events
C34_CommittedTwice ==
    /\ ret.op = "commit" /\ ret.outcome = "TOOL_NOT_FOUND"
    /\ Cardinality(CallsFor(ret.pid)) = 2
    /\ Cardinality(CommittedFor(ret.pid)) = 2
    /\ proposals[ret.pid].status = "pending"
\* event j is a COMMITTED event for a mandate that event i revokes
CommittedAfterRevoke(i, j) ==
    /\ i < j
    /\ events[i].type = "MANDATE_REVOKE"
    /\ events[j].type = "COMMITTED"
    /\ events[j].payload.mandateId = events[i].payload.mandate_id

\* C35: revocation stops commits in flight: when revokeMandate for m
\* completes while a commit presenting m is suspended before its COMMITTED
\* event is stored, that commit does not go on to the executor (which it
\* calls right after storing COMMITTED), so no COMMITTED event for m stands
\* after a MANDATE_REVOKE event for m.
C35_NoCommitAfterRevoke ==
    \A i, j \in DOMAIN events : ~CommittedAfterRevoke(i, j)

\* a commit suspended inside the append of its COMMITTED event was overtaken
\* by a revocation of its mandate; it stored COMMITTED after the
\* MANDATE_REVOKE event and called the tool
C35_CommittedPastRevocation ==
    /\ \E i, j \in DOMAIN events : CommittedAfterRevoke(i, j) /\ j = Len(events)
    /\ Len(calls) = 1
    /\ \E t \in 1..MaxTasks :
          /\ tasks[t].op = "commit" /\ tasks[t].pc = "called"
          /\ isMandateRevoked(tasks[t].mandate.mandate_id, events)
\* C36: revocation needs no authority: as soon as a MANDATE_REVOKE event
\* naming a mandate's id is in the log, whoever signed it and whether or not
\* its signature verifies, every commit presenting the mandate is rejected
\* and calls no tool.
C36_AnyRevocationCounts ==
    [][\A p \in DOMAIN proposals, m \in Shown :
         ( /\ CommitStep(p, m)
           /\ HoldsRevocation(events, m.mandate_id) )
         => /\ isMandateRevoked(m.mandate_id, events)
            /\ calls' = calls
            /\ proposals'[p].status = "rejected"
            /\ ret'.outcome \in {"INVALID_MANDATE", "KEY_NOT_FOUND"}]_vars

\* a mandate otherwise in order was refused as revoked on the strength of a
\* single MANDATE_REVOKE event, signed by the agent
C36_RevokedByAgent ==
    /\ ret.op = "commit" /\ ret.outcome = "INVALID_MANDATE"
    /\ SignedByIssuer(ret.mandate) /\ InWindow(ret.mandate)
    /\ proposals[ret.pid].status = "rejected"
    /\ calls = <<>>
    /\ \E i \in DOMAIN events :
          /\ events[i].type = "MANDATE_REVOKE"
          /\ events[i].signer \in Agents
          /\ events[i].payload.mandate_id = ret.mandate.mandate_id
          /\ \A j \in DOMAIN events : events[j].type = "MANDATE_REVOKE" => j = i
\* C37: revocation is permanent under kernel operations: once
\* isMandateRevoked(id) is true it stays true over append, propose, commit
\* and revokeMandate; only EventLog.import, which replaces the whole
\* sequence, can make it false again.
C37_RevocationPermanent ==
    [][\A id \in MandateIds :
         (isMandateRevoked(id, events) /\ ret'.op # "import")
            => isMandateRevoked(id, events')]_vars

\* an import of the empty sequence made a revoked mandate unrevoked
C37_ImportUndidRevocation ==
    /\ ret.op = "import"
    /\ Mandate1.mandate_id \in ret.revokedBefore
    /\ ~isMandateRevoked(Mandate1.mandate_id, events)
    /\ verifyMandate(Mandate1, keys, events, now).valid
\* C38: MandateBuilder keeps one revocation chain for all its mandates:
\* after revokeMandate(m), isMandateValid is false for every mandate created
\* before that call, not only for m, and true for mandates created
\* afterwards until the next revocation.
C38_OneChainForAll ==
    /\ \A i \in DOMAIN issued :
          isMandateValid(revocationChain, issued[i])
             <=> issued[i].revokedBefore = Len(added)
    /\ (ret.op = "isMandateValid")
          => (ret.result <=> issued[ret.mandateId].revokedBefore = Len(added))

\* the first mandate was revoked; the second, created before that call, is
\* reported invalid as well, and the third, created after it, is valid
C38_OtherMandateInvalid ==
    /\ Len(issued) = 3 /\ Len(added) = 1
    /\ issued[1].revokedBefore = 0 /\ issued[2].revokedBefore = 0
    /\ issued[3].revokedBefore = 1
    /\ ret = [op |-> "isMandateValid", mandateId |-> 2, result |-> FALSE]
    /\ isMandateValid(revocationChain, issued[3])

\* C39: persisting a revocation chain keeps its head and loses its depth:
\* fromJSON(c.toJSON()) has c's current hash, passes verifyChain() and
\* agrees with c on isValid for every hash; its depth equals c's only when
\* c's depth is at most 2, and hashes revoked before c's previous head are no
\* longer reported by wasRevoked.
C39_RestoreKeepsHead ==
    [][ret'.op = "fromJSON" =>
         LET c == revocationChain
             r == revocationChain'
         IN  /\ getCurrentHash(r) = getCurrentHash(c)
             /\ revocationVerifyChain(r)
             /\ \A h \in HeldHashes : isValid(r, h) <=> isValid(c, h)
             /\ (getDepth(r) = getDepth(c)) <=> (getDepth(c) <= 2)
             /\ \A i \in 1..(Len(c) - 2) : ~wasRevoked(r, c[i].hash)
             /\ Len(c) >= 2 => wasRevoked(r, c[Len(c) - 1].hash)]_vars

\* a chain of depth 4 was restored with depth 2, and the holder was told
\* that its first head, revoked before, was never revoked
C39_EarlyHeadForgotten ==
    /\ Len(added) = 3
    /\ Len(revocationChain) = 2
    /\ getCurrentHash(revocationChain) = added[3]
    /\ ret = [op |-> "wasRevoked", hash |-> added[1], result |-> FALSE]

====
